---- MODULE Spec2Model ----
(***************************************************************************)
(* A model of AsyncDockerContainerManager                                  *)
(* (src/src/multi_agent_coding_system/misc/async_docker_container_manager.py). *)
(*                                                                         *)
(* The manager runs on one asyncio event loop: the code between two        *)
(* suspending awaits is one atomic step.  Each action below is one such    *)
(* segment of a coroutine, named after the await whose return starts it.   *)
(* `async with self._node_selection_lock` never suspends: no coroutine     *)
(* awaits while it holds the lock, so the lock is free whenever it is      *)
(* asked for, and asyncio.Lock.acquire returns at once when it is free.    *)
(*                                                                         *)
(* The container engine is the environment: a build, create, start, show,  *)
(* log, get, stop or delete call returns one of the outcomes the engine    *)
(* can produce, chosen nondeterministically where the engine decides.      *)
(***************************************************************************)
EXTENDS Integers, Sequences, FiniteSets

\* Bounds of the model.
MaxTasks == 2       \* concurrent callers (asyncio tasks) in Spec
MaxCalls == 2       \* calls made in one behaviour of Spec
NumNodes == 2       \* configured docker endpoints in Spec
RunCallers == 3     \* concurrent callers of runContainer in SpecRuns
BuildCeiling == 2   \* the 600 seconds of _build_image's wait_for, in ticks
ExecCallers == 2    \* concurrent callers of exec in SpecExec
MaxTimeout == 2     \* largest timeout argument of exec, in ticks
MaxFrames == 2      \* frames one command writes in SpecStream
TmThreads == 2      \* threads that call the task manager in SpecTm
MaxTaskIds == 4     \* task ids given out in one behaviour of SpecTm
MaxContainers == 2   \* containers in the registry when SpecLife starts
MaxStatusTasks == 3  \* tasks created in one behaviour of SpecAggregate
MaxOwnedTasks == 1    \* tasks created in one behaviour of SpecStatus
OverlapCallers == 3   \* tasks of SpecOverlap, the last one calling exec only
MaxActions == 2       \* actions parsed from one LLM output
MaxTurns == 2         \* max_turns of OrchestratorAgent.run

\* The end-to-end scenario of tests/test_multi_node_docker_manager.py.
SixCalls == 6
TwoEndpoints == 2

\* HierarchicalTaskManager.MAX_DEPTH
MAX_DEPTH == 2

NoNode == -1        \* no node index (a local not yet assigned, an id not in self.containers)
NoId == 0           \* no container id
NoTimeout == -1     \* timeout=None: execute_command without a timeout
NoThread == 0       \* the lock is free
NoTask == <<>>      \* no task id (parent_id=None, a local not yet assigned)

VARIABLES
    calls,          \* number of calls made to the manager so far
    counts,         \* self.active_container_counts: node index -> int
    containers,     \* self.containers: container id -> node index, NoNode when absent
    engine,         \* the engines' containers: id -> [node, status]
    pc,             \* each task's position: the await it is suspended at
    op,             \* the operation a task is running
    container_id,   \* a task's container_id (the argument, or container.id of a run)
    node_idx,       \* a task's node_idx local
    attempts,       \* number of _build_image calls a task's run has made
    firstBuild,     \* how the build process of the first attempt ended
    observed,       \* container_info['State']['Status'] as the run read it
    result,         \* how the task's operation ended
    timeout,        \* the timeout argument of a task's execute_command
    elapsed,        \* time a task has spent in its wait_for, in ticks
    received,       \* the messages stream.read_out has returned to a task
    stdout_chunks,  \* a task's stdout_chunks
    stderr_chunks,  \* a task's stderr_chunks
    session,        \* the exec instance of a task's execute_command in the engine
    process,        \* the docker build subprocess of a task's _build_image
    tasks,          \* HierarchicalTaskManager.tasks: task id -> Task
    task_counter,   \* HierarchicalTaskManager.task_counter
    lock,           \* HierarchicalTaskManager._lock: the thread that holds it
    parent_id,      \* a thread's parent_id argument of create_subtask
    task_id,        \* a thread's task_id local
    request,        \* a thread's owner_id, status and error_message arguments
    docker_endpoints, \* len(self.docker_endpoints)
    clients,        \* len(self.clients)
    initialized,    \* self._initialized
    awaited,        \* the close_container tasks a cleanup_all's gather waits for
    gathered,       \* what that gather has returned: container id -> outcome
    files,          \* the files of the container: path -> bytes
    workdir,        \* the directory the container's commands start in
    copy,           \* a task's arguments and locals in copy_file_to_container
    log,            \* the records written to the log by background launches
    turn,           \* the locals of TurnExecutor.execute and what it returned
    state           \* OrchestratorState.done and the turn counter of run

\* The task manager: its fields and the locals of a thread in it.
tm == <<tasks, task_counter, lock, parent_id, task_id, request>>

\* The manager's clients and the gather of cleanup_all.
life == <<docker_endpoints, clients, initialized, awaited, gathered>>

\* The container's file system and the locals of a copy.
copying == <<files, workdir, copy>>

\* The orchestrator and its turn executor.
agent == <<turn, state>>

\* What the operations on containers leave alone.
aside == <<tm, life, copying, log, agent>>

\* What the task manager leaves alone, besides the container manager.
notTm == <<life, copying, log, agent>>

\* What cleanup_all and close leave alone, besides the container manager.
notLife == <<tm, copying, log, agent>>

\* What copy_file_to_container leaves alone, besides the container manager.
notCopy == <<tm, life, log, agent>>

\* What a background launch leaves alone, besides the container manager.
notLog == <<tm, life, copying, agent>>

\* What a turn of the orchestrator leaves alone, besides the container manager.
notAgent == <<tm, life, copying, log>>

vars == <<calls, counts, containers, engine, pc, op, container_id, node_idx,
          attempts, firstBuild, observed, result, timeout, elapsed, received,
          stdout_chunks, stderr_chunks, session, process, aside>>

\* The locals of execute_command and _build_image.
execLocals == <<timeout, elapsed, received, stdout_chunks, stderr_chunks, session>>

locals == <<op, container_id, node_idx, attempts, firstBuild, observed, result,
            execLocals, process>>

Tasks == DOMAIN pc
Nodes == DOMAIN counts
Ids == DOMAIN engine

----------------------------------------------------------------------------
\* The engine.

Absent == [node |-> NoNode, status |-> "absent"]

\* A container the engine of node n can return for client.containers.get(id).
ExistsOn(id, n) ==
    /\ engine[id].node = n
    /\ engine[id].status \in {"created", "running", "exited"}

Exists(id) == \E n \in Nodes : ExistsOn(id, n)

\* The engine has the container no more: "removed" by this manager's
\* delete, "gone" when removed from outside.
Removed(id) == engine[id].status \in {"removed", "gone"}

\* The id the engine gives the container created for task t: ids are opaque
\* and unique, and a task creates at most one container in this model.
NewId(t) == t

----------------------------------------------------------------------------
\* Text of build failures: a text is a sequence of words.

Contains(text, sig) ==
    \E i \in 1..Len(text) :
        /\ i + Len(sig) - 1 <= Len(text)
        /\ SubSeq(text, i, i + Len(sig) - 1) = sig

UnknownParentSignature == <<"unknown", "parent", "image", "ID">>
NoSuchImageSignature == <<"no", "such", "image">>

\* What the docker build process can do.  "exit_nonzero_cache_corrupt" is a
\* build that exits non-zero after writing a cache-corruption message
\* ("unknown parent image ID" / "no such image") to its output.
BuildOutcomes == {"ok", "exit_nonzero", "exit_nonzero_cache_corrupt", "timeout"}

NoError == <<>>

\* _build_image: the message of the DockerError it raises, NoError when it
\* returns.  The process's output lines are logged and dropped; the message
\* holds the exit code or the timeout only.
BuildImage(outcome) ==
    CASE outcome = "ok" -> NoError
      [] outcome = "timeout" ->
            <<"Build", "timed", "out", "after", "600", "seconds">>
      [] OTHER ->
            <<"Build", "failed", "with", "exit", "code", "N">>

\* str(e) of a DockerError(None, {'message': message}).
DockerErrorStr(message) == <<"DockerError(None,">> \o message

\* A plausible slip: every failed build is tried again without cache.
RetryAnyFailure(error_msg) == TRUE

\* The test of line 187 on error_msg = str(e).
IsCacheCorruption(error_msg) ==
    \/ Contains(error_msg, UnknownParentSignature)
    \/ Contains(error_msg, NoSuchImageSignature)

----------------------------------------------------------------------------
\* Node selection and the counters.

Range(f) == {f[x] : x \in DOMAIN f}

MinOf(c) == CHOOSE m \in Range(c) : \A x \in Range(c) : m <= x

\* A plausible slip: the last least-loaded index instead of the first.
SelectLastLeastLoaded(c) ==
    CHOOSE i \in DOMAIN c :
        /\ c[i] = MinOf(c)
        /\ \A j \in DOMAIN c : j > i => c[j] # MinOf(c)

\* A plausible slip: no load balancing, always the first node.
SelectFirstNode(c) == CHOOSE i \in DOMAIN c : \A j \in DOMAIN c : i <= j

\* self.active_container_counts.index(min(self.active_container_counts))
SelectLeastLoadedNode(c) ==
    CHOOSE i \in DOMAIN c :
        /\ c[i] = MinOf(c)
        /\ \A j \in DOMAIN c : j < i => c[j] # MinOf(c)

\* self.active_container_counts[node_idx] += 1
Increment(c, n) == [c EXCEPT ![n] = @ + 1]

\* A plausible slip: the failure handler forgets the counter.
NoDecrement(c, n) == c

\* A plausible slip: the first node's counter whatever the node.
DecrementFirstNode(c, n) == [c EXCEPT ![0] = @ - 1]

\* self.active_container_counts[node_idx] -= 1
Decrement(c, n) == [c EXCEPT ![n] = @ - 1]

\* A plausible slip: every container is registered under node 0.
RegisterOnFirst(reg, id, n) == [reg EXCEPT ![id] = 0]

\* self.containers[container_id] = (node_idx, container)
Register(reg, id, n) == [reg EXCEPT ![id] = n]

\* del self.containers[container_id], guarded by `container_id in self.containers`
Unregister(reg, id) == [reg EXCEPT ![id] = NoNode]

\* container_info['State']['Status'] != 'running' is the failure test.
IsRunning(status) == status = "running"

----------------------------------------------------------------------------
\* Initial state: _ensure_initialized has run, no call was made yet.

\* A task manager as __init__ leaves it, no thread in it.
NoRequest == [owner_id |-> "none", status |-> "none", error_message |-> "none"]

InitTaskManager(nTasks) ==
    /\ tasks = <<>>
    /\ task_counter = 0
    /\ lock = NoThread
    /\ parent_id = [t \in 1..nTasks |-> NoTask]
    /\ task_id = [t \in 1..nTasks |-> NoTask]
    /\ request = [t \in 1..nTasks |-> NoRequest]

\* Lines 54-67: _ensure_initialized has made one client per endpoint.
InitClients(nTasks, nNodes) ==
    /\ docker_endpoints = nNodes
    /\ clients = nNodes
    /\ initialized = TRUE
    /\ awaited = [t \in 1..nTasks |-> {}]
    /\ gathered = [t \in 1..nTasks |-> <<>>]

\* A path is the sequence of its components, "/" first when it is absolute.
Root == <<"/">>
Workdirs == {Root, <<"/", "app">>}
Paths == {<<"/", "f">>, <<"/", "app", "f">>}
NoFile == <<"ENOENT">>
NoTar == [name |-> "", size |-> 0, data |-> <<>>]
NoSnapshot == [containers |-> <<>>, counts |-> <<>>, files |-> <<>>,
               engine |-> <<>>]
NoCopy == [local_file_path |-> "none", container_file_path |-> <<>>,
           file_data |-> <<>>, tar_data |-> NoTar, before |-> NoSnapshot]

\* No file has been copied; no copy is under way.
InitCopying(nTasks) ==
    /\ files = [p \in Paths |-> NoFile]
    /\ workdir = Root
    /\ copy = [t \in 1..nTasks |-> NoCopy]

\* Nothing has been logged.
InitLog == log = {}

\* No turn has been executed.
NoTurn ==
    [actions |-> <<>>, next |-> 1, actions_executed |-> <<>>, has_error |-> FALSE,
     done |-> FALSE, returned |-> FALSE]

\* OrchestratorState as setup() makes it, and run's turns_executed = 0.
InitAgent ==
    /\ turn = NoTurn
    /\ state = [done |-> FALSE, turns_executed |-> 0, finish_reason |-> "none"]

InitAside(nTasks, nNodes) ==
    /\ InitTaskManager(nTasks)
    /\ InitClients(nTasks, nNodes)
    /\ InitCopying(nTasks)
    /\ InitLog
    /\ InitAgent

InitWith(nTasks, nNodes) ==
    /\ InitAside(nTasks, nNodes)
    /\ calls = 0
    /\ counts = [n \in 0..(nNodes - 1) |-> 0]
    /\ containers = [i \in 1..nTasks |-> NoNode]
    /\ engine = [i \in 1..nTasks |-> Absent]
    /\ pc = [t \in 1..nTasks |-> "idle"]
    /\ op = [t \in 1..nTasks |-> "none"]
    /\ container_id = [t \in 1..nTasks |-> NoId]
    /\ node_idx = [t \in 1..nTasks |-> NoNode]
    /\ attempts = [t \in 1..nTasks |-> 0]
    /\ firstBuild = [t \in 1..nTasks |-> "none"]
    /\ observed = [t \in 1..nTasks |-> "none"]
    /\ result = [t \in 1..nTasks |-> "none"]
    /\ timeout = [t \in 1..nTasks |-> NoTimeout]
    /\ elapsed = [t \in 1..nTasks |-> 0]
    /\ received = [t \in 1..nTasks |-> <<>>]
    /\ stdout_chunks = [t \in 1..nTasks |-> <<>>]
    /\ stderr_chunks = [t \in 1..nTasks |-> <<>>]
    /\ session = [t \in 1..nTasks |-> "none"]
    /\ process = [t \in 1..nTasks |-> "none"]

Init == InitWith(MaxTasks, NumNodes)

InitSix == InitWith(SixCalls, TwoEndpoints)

----------------------------------------------------------------------------
\* A task's operation ends: the coroutine returns or raises `res`.

Finish(t, res) ==
    /\ pc' = [pc EXCEPT ![t] = "done"]
    /\ result' = [result EXCEPT ![t] = res]

\* The caller takes the outcome; the task is free for its next call.
Return(t) ==
    /\ UNCHANGED calls
    /\ pc[t] = "done"
    /\ pc' = [pc EXCEPT ![t] = "idle"]
    /\ op' = [op EXCEPT ![t] = "none"]
    /\ container_id' = [container_id EXCEPT ![t] = NoId]
    /\ node_idx' = [node_idx EXCEPT ![t] = NoNode]
    /\ attempts' = [attempts EXCEPT ![t] = 0]
    /\ firstBuild' = [firstBuild EXCEPT ![t] = "none"]
    /\ observed' = [observed EXCEPT ![t] = "none"]
    /\ result' = [result EXCEPT ![t] = "none"]
    /\ timeout' = [timeout EXCEPT ![t] = NoTimeout]
    /\ elapsed' = [elapsed EXCEPT ![t] = 0]
    /\ received' = [received EXCEPT ![t] = <<>>]
    /\ stdout_chunks' = [stdout_chunks EXCEPT ![t] = <<>>]
    /\ stderr_chunks' = [stderr_chunks EXCEPT ![t] = <<>>]
    /\ session' = [session EXCEPT ![t] = "none"]
    /\ process' = [process EXCEPT ![t] = "none"]
    /\ parent_id' = [parent_id EXCEPT ![t] = NoTask]
    /\ task_id' = [task_id EXCEPT ![t] = NoTask]
    /\ request' = [request EXCEPT ![t] = NoRequest]
    /\ awaited' = [awaited EXCEPT ![t] = {}]
    /\ gathered' = [gathered EXCEPT ![t] = <<>>]
    /\ copy' = [copy EXCEPT ![t] = NoCopy]
    /\ UNCHANGED <<counts, containers, engine, tasks, task_counter, lock,
                   docker_endpoints, clients, initialized, files, workdir, log,
                   turn, state>>

----------------------------------------------------------------------------
\* spin_up_container_from_dir (runContainer).

\* The positions of a run between its reservation and its end.
RunPcs == {"build", "rebuild", "create", "start", "show", "logs"}

InFlightRun(t) == op[t] = "run" /\ pc[t] \in RunPcs

\* A plausible slip: the failure handler re-raises without releasing the slot.
RunFailsKeepingSlot(t, res) ==
    /\ Finish(t, res)
    /\ UNCHANGED counts

\* Lines 260-268: any Exception of the build or the run releases the slot
\* and is raised again.
RunFails(t, res) ==
    /\ counts' = Decrement(counts, node_idx[t])
    /\ Finish(t, res)

\* A plausible slip: the build context is validated after the reservation,
\* outside the try block that releases the slot.
RunCallReservesFirst(t) ==
    /\ UNCHANGED aside
    /\ UNCHANGED <<execLocals, process>>
    /\ pc[t] = "idle"
    /\ calls' = calls + 1
    /\ engine[NewId(t)].status = "absent"
    /\ op' = [op EXCEPT ![t] = "run"]
    /\ LET n == SelectLeastLoadedNode(counts)
       IN /\ node_idx' = [node_idx EXCEPT ![t] = n]
          /\ counts' = Increment(counts, n)
          /\ \E valid \in BOOLEAN :
                IF valid THEN pc' = [pc EXCEPT ![t] = "build"] /\ UNCHANGED result
                         ELSE Finish(t, "InvalidBuildContext")
    /\ UNCHANGED <<containers, engine, container_id, attempts, firstBuild, observed>>

\* Lines 154-177: validation, then selection and reservation in one step,
\* up to the first suspension inside _build_image.
RunCall(t) ==
    /\ UNCHANGED aside
    /\ UNCHANGED <<execLocals, process>>
    /\ pc[t] = "idle"
    /\ calls' = calls + 1
    /\ engine[NewId(t)].status = "absent"
    /\ op' = [op EXCEPT ![t] = "run"]
    /\ \E valid \in BOOLEAN :
        IF ~valid
        THEN /\ Finish(t, "InvalidBuildContext")
             /\ UNCHANGED <<counts, node_idx>>
        ELSE LET n == SelectLeastLoadedNode(counts)
             IN /\ node_idx' = [node_idx EXCEPT ![t] = n]
                /\ counts' = Increment(counts, n)
                /\ pc' = [pc EXCEPT ![t] = "build"]
                /\ UNCHANGED result
    /\ UNCHANGED <<containers, engine, container_id, attempts, firstBuild, observed>>

\* Lines 181-213: a _build_image call ends.  The first attempt is made with
\* the cache; when its DockerError's text has a cache-corruption signature
\* the image deletion and the prunes are tried (their failures are logged
\* and dropped, they touch nothing of the manager) and the build is made
\* once more without cache, at position "rebuild".
BuildReturns(t) ==
    /\ UNCHANGED aside
    /\ UNCHANGED <<execLocals, process>>
    /\ UNCHANGED calls
    /\ pc[t] \in {"build", "rebuild"}
    /\ \E outcome \in BuildOutcomes :
        LET message == BuildImage(outcome)
            first == pc[t] = "build"
        IN /\ attempts' = [attempts EXCEPT ![t] = @ + 1]
           /\ firstBuild' = IF first THEN [firstBuild EXCEPT ![t] = outcome]
                                     ELSE firstBuild
           /\ IF message = NoError
              THEN /\ pc' = [pc EXCEPT ![t] = "create"]
                   /\ UNCHANGED <<counts, result>>
              ELSE IF first /\ IsCacheCorruption(DockerErrorStr(message))
              THEN /\ pc' = [pc EXCEPT ![t] = "rebuild"]
                   /\ UNCHANGED <<counts, result>>
              ELSE RunFails(t, "BuildError")
    /\ UNCHANGED <<containers, engine, op, container_id, node_idx, observed>>

\* Lines 216-228: client.containers.create returns a container or raises.
CreateReturns(t) ==
    /\ UNCHANGED aside
    /\ UNCHANGED <<execLocals, process>>
    /\ UNCHANGED calls
    /\ pc[t] = "create"
    /\ \E ok \in BOOLEAN :
        IF ok
        THEN /\ engine' = [engine EXCEPT ![NewId(t)] =
                              [node |-> node_idx[t], status |-> "created"]]
             /\ container_id' = [container_id EXCEPT ![t] = NewId(t)]
             /\ pc' = [pc EXCEPT ![t] = "start"]
             /\ UNCHANGED <<counts, result>>
        ELSE /\ RunFails(t, "EngineError")
             /\ UNCHANGED <<engine, container_id>>
    /\ UNCHANGED <<containers, op, node_idx, attempts, firstBuild, observed>>

\* Line 230: container.start returns or raises; a started container runs, or
\* has exited already when its command ends at once.
StartReturns(t) ==
    /\ UNCHANGED aside
    /\ UNCHANGED <<execLocals, process>>
    /\ UNCHANGED calls
    /\ pc[t] = "start"
    /\ IF engine[container_id[t]].status = "created"
       THEN \E s \in {"running", "exited"} :
              /\ engine' = [engine EXCEPT ![container_id[t]].status = s]
              /\ pc' = [pc EXCEPT ![t] = "show"]
              /\ UNCHANGED <<counts, result>>
       ELSE /\ RunFails(t, "EngineError")
            /\ UNCHANGED engine
    /\ UNCHANGED <<containers, op, container_id, node_idx, attempts, firstBuild,
                   observed>>

\* Lines 233-258: asyncio.sleep(0.5) is over and container.show returns the
\* live status, or raises when the container is gone (nothing of the manager
\* is read or written between the two awaits: they are one position).  Running: register and return the id.  Otherwise the
\* logs are asked for (line 245, inside _log_container_startup_failure).
ShowReturns(t) ==
    /\ UNCHANGED aside
    /\ UNCHANGED <<execLocals, process>>
    /\ UNCHANGED calls
    /\ pc[t] = "show"
    /\ IF ~Exists(container_id[t])
       THEN /\ RunFails(t, "EngineError")
            /\ UNCHANGED <<containers, observed>>
       ELSE LET status == engine[container_id[t]].status
            IN /\ observed' = [observed EXCEPT ![t] = status]
               /\ IF IsRunning(status)
                  THEN /\ containers' = Register(containers, container_id[t], node_idx[t])
                       /\ Finish(t, "ok")
                       /\ UNCHANGED counts
                  ELSE /\ pc' = [pc EXCEPT ![t] = "logs"]
                       /\ UNCHANGED <<counts, containers, result>>
    /\ UNCHANGED <<engine, op, container_id, node_idx, attempts, firstBuild>>

\* A plausible slip: a failed log retrieval escapes as its own error.
StartupFailureLogged(logs_ok) == IF logs_ok THEN "StartError" ELSE "EngineError"

\* Lines 89-95 and 247: container.log returns or raises; either way the
\* RuntimeError of line 247 is what the run raises.
StartupFailure(logs_ok) == "StartError"

LogReturns(t) ==
    /\ UNCHANGED aside
    /\ UNCHANGED <<execLocals, process>>
    /\ UNCHANGED calls
    /\ pc[t] = "logs"
    /\ \E logs_ok \in BOOLEAN : RunFails(t, StartupFailure(logs_ok))
    /\ UNCHANGED <<containers, engine, op, container_id, node_idx, attempts,
                   firstBuild, observed>>

----------------------------------------------------------------------------
\* close_container (stop), with the _get_container (lookup) it starts with.

\* A plausible slip: the lookup's DockerError escapes close_container.
LookupErrorRaised == "ContainerNotFound"

\* Lines 365-367: close_container drops the DockerError of _get_container.
LookupErrorSwallowed == "ok"

\* Lines 121-135 and 345-350, entry: a registered id is answered from
\* self.containers without suspending and container.stop is called;
\* otherwise the first endpoint is asked for the container.
StopCall(t, id) ==
    /\ UNCHANGED aside
    /\ UNCHANGED <<execLocals, process>>
    /\ pc[t] = "idle"
    /\ calls' = calls + 1
    /\ op' = [op EXCEPT ![t] = "stop"]
    /\ container_id' = [container_id EXCEPT ![t] = id]
    /\ IF containers[id] # NoNode
       THEN /\ node_idx' = [node_idx EXCEPT ![t] = containers[id]]
            /\ pc' = [pc EXCEPT ![t] = "stopping"]
       ELSE /\ node_idx' = [node_idx EXCEPT ![t] = 0]
            /\ pc' = [pc EXCEPT ![t] = "probe"]
    /\ UNCHANGED <<counts, containers, engine, attempts, firstBuild, observed, result>>

\* Where a call goes on once _get_container has returned: close_container
\* calls container.stop (line 350), execute_command container.show (line 419),
\* copy_file_to_container opens the local file (line 384).
AfterLookup(o) ==
    IF o = "stop" THEN "stopping" ELSE IF o = "copy" THEN "read" ELSE "status"

\* How a call ends when _get_container raises: close_container drops the
\* DockerError, execute_command has no handler for it.
LookupFailure(o) == IF o = "stop" THEN LookupErrorSwallowed ELSE "ContainerNotFound"

\* A plausible slip: the failed lookup leaves the entry it finds.
KeepEntry(reg, id) == reg

\* Lines 136-140: `if container_id in self.containers: del ...` before the
\* DockerError is raised again.
PurgeStale(reg, id) == Unregister(reg, id)

\* A plausible slip: the probe's hit is returned and not cached.
NoCache(reg, id, n) == reg

\* Line 127: self.containers[container_id] = (node_idx, container)
CacheHit(reg, id, n) == Register(reg, id, n)

\* Lines 125-140: client.containers.get of endpoint node_idx returns the
\* container, which is cached, or raises and the next endpoint is asked;
\* after the last one the stale entry, if any, is purged and DockerError
\* is raised.
ProbeReturns(t) ==
    /\ UNCHANGED aside
    /\ UNCHANGED <<execLocals, process>>
    /\ UNCHANGED calls
    /\ pc[t] = "probe"
    /\ LET id == container_id[t]
           n == node_idx[t]
       IN IF ExistsOn(id, n)
          THEN /\ containers' = CacheHit(containers, id, n)
               /\ pc' = [pc EXCEPT ![t] = AfterLookup(op[t])]
               /\ UNCHANGED <<node_idx, result>>
          ELSE IF n + 1 \in Nodes
          THEN /\ node_idx' = [node_idx EXCEPT ![t] = n + 1]
               /\ UNCHANGED <<containers, pc, result>>
          ELSE /\ containers' = PurgeStale(containers, id)
               /\ node_idx' = [node_idx EXCEPT ![t] = NoNode]
               /\ Finish(t, LookupFailure(op[t]))
    /\ UNCHANGED <<counts, engine, op, container_id, attempts, firstBuild, observed>>

\* Lines 349-352: container.stop(t=10) returns, or raises DockerError for a
\* container that is gone; the error is dropped.
StopReturns(t) ==
    /\ UNCHANGED aside
    /\ UNCHANGED calls
    /\ pc[t] = "stopping"
    /\ engine' = IF engine[container_id[t]].status = "running"
                 THEN [engine EXCEPT ![container_id[t]].status = "exited"]
                 ELSE engine
    /\ pc' = [pc EXCEPT ![t] = "deleting"]
    /\ UNCHANGED <<counts, containers, locals>>

\* Lines 354-364: container.delete(force=True) returns, or raises DockerError
\* for a container that is gone; the error is dropped.  Then the count of
\* the node found at the lookup is decremented and the entry deleted.
DeleteReturns(t) ==
    /\ UNCHANGED aside
    /\ UNCHANGED <<execLocals, process>>
    /\ UNCHANGED calls
    /\ pc[t] = "deleting"
    /\ engine' = IF Exists(container_id[t])
                 THEN [engine EXCEPT ![container_id[t]].status = "removed"]
                 ELSE engine
    /\ counts' = Decrement(counts, node_idx[t])
    /\ containers' = Unregister(containers, container_id[t])
    /\ Finish(t, "ok")
    /\ UNCHANGED <<op, container_id, node_idx, attempts, firstBuild, observed>>

----------------------------------------------------------------------------
\* The environment: what happens to a container outside the manager.

\* The engine removes the container (docker rm, a prune, another client).
EngineRemoves(id) ==
    /\ UNCHANGED aside
    /\ UNCHANGED calls
    /\ Exists(id)
    /\ engine' = [engine EXCEPT ![id].status = "gone"]
    /\ UNCHANGED <<counts, containers, pc, locals>>

----------------------------------------------------------------------------
\* The manager under any interleaving of its callers and the engine.

Next ==
    \/ \E t \in Tasks : calls < MaxCalls /\ RunCall(t)
    \/ \E t \in Tasks : BuildReturns(t)
    \/ \E t \in Tasks : CreateReturns(t)
    \/ \E t \in Tasks : StartReturns(t)
    \/ \E t \in Tasks : ShowReturns(t)
    \/ \E t \in Tasks : LogReturns(t)
    \/ \E t \in Tasks, id \in Ids : calls < MaxCalls /\ StopCall(t, id)
    \/ \E t \in Tasks : ProbeReturns(t)
    \/ \E t \in Tasks : StopReturns(t)
    \/ \E t \in Tasks : DeleteReturns(t)
    \/ \E t \in Tasks : Return(t)
    \/ \E id \in Ids : EngineRemoves(id)

Spec == Init /\ [][Next]_vars

\* Concurrent runContainer calls alone, each caller calling once.
RunNext ==
    \/ \E t \in Tasks : RunCall(t)
    \/ \E t \in Tasks : BuildReturns(t)
    \/ \E t \in Tasks : CreateReturns(t)
    \/ \E t \in Tasks : StartReturns(t)
    \/ \E t \in Tasks : ShowReturns(t)
    \/ \E t \in Tasks : LogReturns(t)

InitRuns == InitWith(RunCallers, NumNodes)

SpecRuns == InitRuns /\ [][RunNext]_vars

\* The scenario of six concurrent calls on two endpoints that all succeed:
\* every build context is valid, no build or engine call fails and every
\* started container keeps running.
AllSucceed ==
    /\ \A t \in Tasks : result'[t] \in {"none", "ok"}
    /\ \A i \in Ids : engine'[i].status # "exited"

NextSix ==
    \/ \E t \in Tasks : RunCall(t) /\ AllSucceed
    \/ \E t \in Tasks : BuildReturns(t) /\ AllSucceed
    \/ \E t \in Tasks : CreateReturns(t) /\ AllSucceed
    \/ \E t \in Tasks : StartReturns(t) /\ AllSucceed
    \/ \E t \in Tasks : ShowReturns(t) /\ AllSucceed

SpecSix == InitSix /\ [][NextSix]_vars

----------------------------------------------------------------------------
\* _build_image: the docker build subprocess and its 600-second ceiling.

\* process.kill(): SIGKILL ends a process that runs; one that has exited
\* already keeps its exit code.
Kill(p) == IF p = "running" THEN "killed" ELSE p

\* Lines 270-295: the command is made up and create_subprocess_exec is
\* awaited.
BuildImageCall(t) ==
    /\ UNCHANGED aside
    /\ pc[t] = "idle"
    /\ op' = [op EXCEPT ![t] = "build"]
    /\ pc' = [pc EXCEPT ![t] = "spawn"]
    /\ UNCHANGED <<calls, counts, containers, engine, container_id, node_idx,
                   attempts, firstBuild, observed, result, execLocals, process>>

\* Lines 290-295 and 333-336: the subprocess runs, or the docker executable
\* cannot be started and the OSError is logged and raised again.
SpawnReturns(t) ==
    /\ UNCHANGED aside
    /\ pc[t] = "spawn"
    /\ \E started \in BOOLEAN :
        IF started
        THEN /\ process' = [process EXCEPT ![t] = "running"]
             /\ pc' = [pc EXCEPT ![t] = "streaming"]
             /\ UNCHANGED result
        ELSE /\ Finish(t, "SpawnError")
             /\ UNCHANGED process
    /\ UNCHANGED <<calls, counts, containers, engine, op, container_id, node_idx,
                   attempts, firstBuild, observed, execLocals>>

\* The build process ends by itself with exit code 0 or 1.
ProcessExits(t) ==
    /\ UNCHANGED aside
    /\ process[t] = "running"
    /\ \E code \in {"exit_0", "exit_1"} : process' = [process EXCEPT ![t] = code]
    /\ UNCHANGED <<calls, counts, containers, engine, pc, op, container_id,
                   node_idx, attempts, firstBuild, observed, result, execLocals>>

\* Time passes for a task inside asyncio.wait_for(build_with_timeout(), 600).
BuildTick(t) ==
    /\ UNCHANGED aside
    /\ pc[t] = "streaming"
    /\ elapsed[t] < BuildCeiling
    /\ elapsed' = [elapsed EXCEPT ![t] = @ + 1]
    /\ UNCHANGED <<calls, counts, containers, engine, pc, op, container_id,
                   node_idx, attempts, firstBuild, observed, result, timeout,
                   received, stdout_chunks, stderr_chunks, session, process>>

\* Lines 309-314 and 324-329: both pipes are at end of file and
\* process.wait() returns within the ceiling; the exit code decides.
BuildEnds(t) ==
    /\ UNCHANGED aside
    /\ pc[t] = "streaming"
    /\ process[t] \in {"exit_0", "exit_1"}
    /\ Finish(t, IF process[t] = "exit_0" THEN "ok" ELSE "BuildError")
    /\ UNCHANGED <<calls, counts, containers, engine, op, container_id, node_idx,
                   attempts, firstBuild, observed, execLocals, process>>

\* A plausible slip: the timeout is reported and the process left alone.
BuildDeadlineAbandons(t) ==
    /\ UNCHANGED aside
    /\ pc[t] = "streaming"
    /\ elapsed[t] = BuildCeiling
    /\ Finish(t, "BuildTimeout")
    /\ UNCHANGED <<calls, counts, containers, engine, op, container_id, node_idx,
                   attempts, firstBuild, observed, execLocals, process>>

\* Lines 316-318: wait_for raises asyncio.TimeoutError after 600 seconds,
\* the handler kills the process and awaits process.wait().  When the
\* process has exited in the same turn of the event loop, its transport may
\* be closed already and process.kill() raises ProcessLookupError, which
\* lines 333-336 log and raise again.
BuildDeadline(t) ==
    /\ UNCHANGED aside
    /\ pc[t] = "streaming"
    /\ elapsed[t] = BuildCeiling
    /\ \E transport_closed \in BOOLEAN :
        IF transport_closed /\ process[t] # "running"
        THEN /\ Finish(t, "ProcessLookupError")
             /\ UNCHANGED process
        ELSE /\ process' = [process EXCEPT ![t] = Kill(@)]
             /\ pc' = [pc EXCEPT ![t] = "reap"]
             /\ UNCHANGED result
    /\ UNCHANGED <<calls, counts, containers, engine, op, container_id, node_idx,
                   attempts, firstBuild, observed, execLocals>>

\* Lines 318-322: process.wait() returns once the process is no more, and
\* DockerError 'Build timed out after 600 seconds' is raised.
BuildReaped(t) ==
    /\ UNCHANGED aside
    /\ pc[t] = "reap"
    /\ process[t] # "running"
    /\ Finish(t, "BuildTimeout")
    /\ UNCHANGED <<calls, counts, containers, engine, op, container_id, node_idx,
                   attempts, firstBuild, observed, execLocals, process>>

BuildNext ==
    \/ \E t \in Tasks : BuildImageCall(t)
    \/ \E t \in Tasks : SpawnReturns(t)
    \/ \E t \in Tasks : ProcessExits(t)
    \/ \E t \in Tasks : BuildTick(t)
    \/ \E t \in Tasks : BuildEnds(t)
    \/ \E t \in Tasks : BuildDeadline(t)
    \/ \E t \in Tasks : BuildReaped(t)

\* Concurrent _build_image calls, each task calling once.
SpecBuild == Init /\ [][BuildNext]_vars

----------------------------------------------------------------------------
\* execute_command (exec).

\* What stream.read_out returns: a Message(stream, data) with the stream tag
\* of the frame's header (0 stdin, 1 stdout, 2 stderr), or plain bytes.
\* Data is a sequence of bytes; "xFF" is a byte that is not valid UTF-8.
Payloads == {<<"a">>, <<"b">>, <<"xFF">>}
Frames == [type : {"Message"}, stream : 0..2, data : Payloads]
              \cup [type : {"bytes"}, data : Payloads]

IsStdout(msg) == IF msg.type = "Message" THEN msg.stream = 1 ELSE msg.type = "bytes"
IsStderr(msg) == msg.type = "Message" /\ msg.stream = 2

\* data.decode('utf-8', errors='replace')
Decode(data) == [i \in DOMAIN data |-> IF data[i] = "xFF" THEN "uFFFD" ELSE data[i]]

\* ''.join(chunks)
RECURSIVE Join(_)
Join(chunks) == IF chunks = <<>> THEN <<>> ELSE Head(chunks) \o Join(Tail(chunks))

\* A plausible slip: stderr frames land in the stdout accumulator too.
AppendStdoutMerged(chunks, msg) ==
    IF IsStdout(msg) \/ IsStderr(msg) THEN Append(chunks, Decode(msg.data)) ELSE chunks

\* Lines 461-470, stdout_chunks: frames tagged 1 and plain bytes.
AppendStdout(chunks, msg) ==
    IF IsStdout(msg) THEN Append(chunks, Decode(msg.data)) ELSE chunks

\* Lines 461-467, stderr_chunks: frames tagged 2.
AppendStderr(chunks, msg) ==
    IF IsStderr(msg) THEN Append(chunks, Decode(msg.data)) ELSE chunks

\* A plausible slip: the timeout is applied to the exec's creation only and
\* the read loop is awaited without one.
NoReadDeadline(tmo) == NoTimeout

\* Lines 473-476: the timeout wait_for puts on read_stream().
ReadDeadline(tmo) == tmo

\* A plausible slip: the timeout handler kills the command in the container.
KillRemote(s) == IF s = "running" THEN "killed" ELSE s

\* Lines 473-474: asyncio.TimeoutError leaves execute_command; the exec
\* instance in the engine is not touched.
AfterTimeout(s) == s

\* Lines 412-419, entry: a registered id is answered from self.containers
\* without suspending and container.show is called; otherwise the first
\* endpoint is asked for the container.
ExecCall(t, id, tmo) ==
    /\ UNCHANGED aside
    /\ pc[t] = "idle"
    /\ calls' = calls + 1
    /\ op' = [op EXCEPT ![t] = "exec"]
    /\ container_id' = [container_id EXCEPT ![t] = id]
    /\ timeout' = [timeout EXCEPT ![t] = tmo]
    /\ IF containers[id] # NoNode
       THEN /\ node_idx' = [node_idx EXCEPT ![t] = containers[id]]
            /\ pc' = [pc EXCEPT ![t] = "status"]
       ELSE /\ node_idx' = [node_idx EXCEPT ![t] = 0]
            /\ pc' = [pc EXCEPT ![t] = "probe"]
    /\ UNCHANGED <<counts, containers, engine, attempts, firstBuild, observed,
                   result, elapsed, received, stdout_chunks, stderr_chunks,
                   session, process>>

\* A plausible slip: the exec is created whatever the status read.
StatusIgnored(t) ==
    /\ UNCHANGED aside
    /\ pc[t] = "status"
    /\ observed' = [observed EXCEPT ![t] =
                      IF Exists(container_id[t]) THEN engine[container_id[t]].status
                                                 ELSE "error"]
    /\ pc' = [pc EXCEPT ![t] = "create_exec"]
    /\ UNCHANGED <<calls, counts, containers, engine, op, container_id, node_idx,
                   attempts, firstBuild, result, execLocals, process>>

\* Lines 418-423: container.show returns the live status, or raises
\* DockerError for a container that is gone.  Both failures leave
\* execute_command as a RuntimeError; a running container has its exec
\* created next (line 446).
StatusReturns(t) ==
    /\ UNCHANGED aside
    /\ pc[t] = "status"
    /\ LET status == IF Exists(container_id[t]) THEN engine[container_id[t]].status
                                               ELSE "error"
       IN /\ observed' = [observed EXCEPT ![t] = status]
          /\ IF IsRunning(status)
             THEN pc' = [pc EXCEPT ![t] = "create_exec"] /\ UNCHANGED result
             ELSE Finish(t, "ContainerNotRunning")
    /\ UNCHANGED <<calls, counts, containers, engine, op, container_id, node_idx,
                   attempts, firstBuild, execLocals, process>>

\* Lines 446-449 and 473-476: container.exec returns the exec instance, or
\* raises DockerError when the container runs no more; nothing handles the
\* error.  exec_instance.start(detach=False) only makes the Stream object,
\* and read_stream() is entered under wait_for.
ExecCreateReturns(t) ==
    /\ UNCHANGED aside
    /\ pc[t] = "create_exec"
    /\ IF Exists(container_id[t]) /\ IsRunning(engine[container_id[t]].status)
       THEN /\ session' = [session EXCEPT ![t] = "created"]
            /\ pc' = [pc EXCEPT ![t] = "reading"]
            /\ UNCHANGED result
       ELSE /\ Finish(t, "EngineError")
            /\ UNCHANGED session
    /\ UNCHANGED <<calls, counts, containers, engine, op, container_id, node_idx,
                   attempts, firstBuild, observed, timeout, elapsed, received,
                   stdout_chunks, stderr_chunks, process>>

\* Line 459, first read_out: the stream starts the exec in the engine; the
\* command runs, or DockerError is raised when the container runs no more.
StreamStarts(t) ==
    /\ UNCHANGED aside
    /\ pc[t] = "reading"
    /\ session[t] = "created"
    /\ IF Exists(container_id[t]) /\ IsRunning(engine[container_id[t]].status)
       THEN /\ session' = [session EXCEPT ![t] = "running"]
            /\ UNCHANGED <<pc, result>>
       ELSE /\ Finish(t, "EngineError")
            /\ UNCHANGED session
    /\ UNCHANGED <<calls, counts, containers, engine, op, container_id, node_idx,
                   attempts, firstBuild, observed, timeout, elapsed, received,
                   stdout_chunks, stderr_chunks, process>>

\* Lines 459-470: read_out returns a message of the running command.
FrameArrives(t, msg) ==
    /\ UNCHANGED aside
    /\ pc[t] = "reading"
    /\ session[t] = "running"
    /\ received' = [received EXCEPT ![t] = Append(@, msg)]
    /\ stdout_chunks' = [stdout_chunks EXCEPT ![t] = AppendStdout(@, msg)]
    /\ stderr_chunks' = [stderr_chunks EXCEPT ![t] = AppendStderr(@, msg)]
    /\ UNCHANGED <<calls, counts, containers, engine, pc, op, container_id,
                   node_idx, attempts, firstBuild, observed, result, timeout,
                   elapsed, session, process>>

\* The command in the container ends.
CommandEnds(t) ==
    /\ UNCHANGED aside
    /\ session[t] = "running"
    /\ session' = [session EXCEPT ![t] = "finished"]
    /\ UNCHANGED <<calls, counts, containers, engine, pc, op, container_id,
                   node_idx, attempts, firstBuild, observed, result, timeout,
                   elapsed, received, stdout_chunks, stderr_chunks, process>>

\* Lines 460-461 and 479-482: read_out returns None at the end of the
\* stream, the chunks are joined and returned.
StreamEnds(t) ==
    /\ UNCHANGED aside
    /\ pc[t] = "reading"
    /\ session[t] = "finished"
    /\ Finish(t, "ok")
    /\ UNCHANGED <<calls, counts, containers, engine, op, container_id, node_idx,
                   attempts, firstBuild, observed, execLocals, process>>

\* Time passes for a task inside read_stream(): up to its deadline when
\* wait_for set one.
ExecTick(t) ==
    /\ UNCHANGED aside
    /\ pc[t] = "reading"
    /\ IF ReadDeadline(timeout[t]) = NoTimeout
       THEN elapsed[t] <= MaxTimeout
       ELSE elapsed[t] < ReadDeadline(timeout[t])
    /\ elapsed' = [elapsed EXCEPT ![t] = @ + 1]
    /\ UNCHANGED <<calls, counts, containers, engine, pc, op, container_id,
                   node_idx, attempts, firstBuild, observed, result, timeout,
                   received, stdout_chunks, stderr_chunks, session, process>>

\* Lines 473-474: the deadline is reached before the stream has ended;
\* wait_for cancels read_stream(), the stream is closed and
\* asyncio.TimeoutError leaves execute_command.
ExecDeadline(t) ==
    /\ UNCHANGED aside
    /\ pc[t] = "reading"
    /\ ReadDeadline(timeout[t]) # NoTimeout
    /\ elapsed[t] = ReadDeadline(timeout[t])
    /\ session' = [session EXCEPT ![t] = AfterTimeout(@)]
    /\ Finish(t, "ExecTimeout")
    /\ UNCHANGED <<calls, counts, containers, engine, op, container_id, node_idx,
                   attempts, firstBuild, observed, timeout, elapsed, received,
                   stdout_chunks, stderr_chunks, process>>

\* (stdout, stderr) as execute_command returns them.
Stdout(t) == Join(stdout_chunks[t])
Stderr(t) == Join(stderr_chunks[t])

\* The container's main process ends.
ContainerExits(id) ==
    /\ UNCHANGED aside
    /\ engine[id].status = "running"
    /\ engine' = [engine EXCEPT ![id].status = "exited"]
    /\ UNCHANGED <<calls, counts, containers, pc, locals>>

\* One container, there from the start: run and registered by this manager
\* on some node, or run by another client and unknown to the registry, or
\* on no node at all.
TheId == 1

InitExec(nTasks) ==
    /\ InitAside(nTasks, NumNodes)
    /\ calls = 0
    /\ \E n \in 0..(NumNodes - 1), present, registered \in BOOLEAN :
        /\ engine = [i \in {TheId} |->
                        IF present THEN [node |-> n, status |-> "running"] ELSE Absent]
        /\ containers = [i \in {TheId} |->
                            IF present /\ registered THEN n ELSE NoNode]
        /\ counts = [m \in 0..(NumNodes - 1) |->
                        IF present /\ registered /\ m = n THEN 1 ELSE 0]
    /\ pc = [t \in 1..nTasks |-> "idle"]
    /\ op = [t \in 1..nTasks |-> "none"]
    /\ container_id = [t \in 1..nTasks |-> NoId]
    /\ node_idx = [t \in 1..nTasks |-> NoNode]
    /\ attempts = [t \in 1..nTasks |-> 0]
    /\ firstBuild = [t \in 1..nTasks |-> "none"]
    /\ observed = [t \in 1..nTasks |-> "none"]
    /\ result = [t \in 1..nTasks |-> "none"]
    /\ timeout = [t \in 1..nTasks |-> NoTimeout]
    /\ elapsed = [t \in 1..nTasks |-> 0]
    /\ received = [t \in 1..nTasks |-> <<>>]
    /\ stdout_chunks = [t \in 1..nTasks |-> <<>>]
    /\ stderr_chunks = [t \in 1..nTasks |-> <<>>]
    /\ session = [t \in 1..nTasks |-> "none"]
    /\ process = [t \in 1..nTasks |-> "none"]

\* Concurrent execute_command calls on the container, each task calling
\* once, while the engine may stop or remove the container.  The commands
\* write nothing, and a timeout, when one is given, is 0: the deadline of
\* wait_for is due as soon as read_stream() is entered.
ExecNext ==
    \/ \E t \in Tasks, id \in Ids, tmo \in {NoTimeout, 0} : ExecCall(t, id, tmo)
    \/ \E t \in Tasks : ProbeReturns(t)
    \/ \E t \in Tasks : StatusReturns(t)
    \/ \E t \in Tasks : ExecCreateReturns(t)
    \/ \E t \in Tasks : StreamStarts(t)
    \/ \E t \in Tasks : CommandEnds(t)
    \/ \E t \in Tasks : StreamEnds(t)
    \/ \E t \in Tasks : ExecDeadline(t)
    \/ \E id \in Ids : ContainerExits(id)
    \/ \E id \in Ids : EngineRemoves(id)

SpecExec == InitExec(ExecCallers) /\ [][ExecNext]_vars

\* One execute_command call with any timeout and any frames.
StreamNext ==
    \/ \E t \in Tasks, id \in Ids, tmo \in {NoTimeout} \cup (0..MaxTimeout) :
            ExecCall(t, id, tmo)
    \/ \E t \in Tasks : ProbeReturns(t)
    \/ \E t \in Tasks : StatusReturns(t)
    \/ \E t \in Tasks : ExecCreateReturns(t)
    \/ \E t \in Tasks : StreamStarts(t)
    \/ \E t \in Tasks, msg \in Frames :
            Len(received[t]) < MaxFrames /\ FrameArrives(t, msg)
    \/ \E t \in Tasks : CommandEnds(t)
    \/ \E t \in Tasks : StreamEnds(t)
    \/ \E t \in Tasks : ExecTick(t)
    \/ \E t \in Tasks : ExecDeadline(t)

SpecStream == InitExec(1) /\ [][StreamNext]_vars

----------------------------------------------------------------------------
\* self._node_selection_lock: the places that write self.containers or
\* self.active_container_counts, and whether each sits inside
\* `async with self._node_selection_lock`.
WriteSites == {"reserve", "release", "register", "cache", "purge", "close"}

\* Lines 170-173 (selection and increment) and 262-263 (decrement of a
\* failed run) hold the lock; lines 254 (registration), 127 (lookup cache),
\* 138-139 (lookup purge) and 360-364 (close_container) do not.
HoldsLock(site) == site \in {"reserve", "release"}

\* The write sites a step of task t passes.
SitesOf(t) ==
    {site \in WriteSites :
        CASE site = "reserve" -> pc[t] = "idle" /\ pc'[t] = "build"
          [] site = "release" -> InFlightRun(t) /\ pc'[t] = "done" /\ result'[t] # "ok"
          [] site = "register" -> InFlightRun(t) /\ pc'[t] = "done" /\ result'[t] = "ok"
          [] site = "cache" -> pc[t] = "probe" /\ pc'[t] \notin {"probe", "done"}
          [] site = "purge" -> pc[t] = "probe" /\ pc'[t] = "done"
          [] site = "close" -> pc[t] = "deleting" /\ pc'[t] = "done"}

----------------------------------------------------------------------------
\* HierarchicalTaskManager
\* (src/src/multi_agent_coding_system/agents/actions/hierarchical_task_manager.py).
\* Its callers are threads; `with self._lock` is entered when the lock is
\* free and left when the block ends, by return or by raise.

\* f"{self.TASK_ID_PREFIX}{self.task_counter:03d}", for a counter below 1000.
TaskId(n) == <<"task_", (n \div 100) % 10, (n \div 10) % 10, n % 10>>

\* Task(task_id=..., owner_id=..., depth=..., parent_id=...) with its empty
\* child_ids, its status CREATED, no error message and no completion time;
\* the other fields are the caller's arguments, stored as given.
NewTask(id, depth, parent, owner) ==
    [task_id |-> id, depth |-> depth, parent_id |-> parent, child_ids |-> <<>>,
     owner_id |-> owner, status |-> "created", error_message |-> "none",
     completed_at |-> "none"]

\* self.tasks[task_id] = task
PutTask(m, id, task) == [i \in DOMAIN m \cup {id} |-> IF i = id THEN task ELSE m[i]]

\* A plausible slip: the subtask is stored and its parent's list is not
\* updated.
ForgetChild(m, parent, id) == m

\* parent.child_ids.append(task_id)
AppendChild(m, parent, id) == [m EXCEPT ![parent].child_ids = Append(@, id)]

\* A plausible slip: the block is entered without taking the lock.
AcquireNothing(l, t) == l

\* Lock.acquire of a free lock.
Acquire(l, t) == t

\* A plausible slip: the limit is tested with > and one level more is let in.
DepthExceededLate(depth) == depth > MAX_DEPTH

\* Line 94: parent.depth >= self.MAX_DEPTH
DepthExceeded(depth) == depth >= MAX_DEPTH

\* Lines 43-55: create_task is called and waits for the lock.
CreateTaskCall(t, owner) ==
    /\ UNCHANGED notTm
    /\ pc[t] = "idle"
    /\ op' = [op EXCEPT ![t] = "create_task"]
    /\ request' = [request EXCEPT ![t].owner_id = owner]
    /\ pc' = [pc EXCEPT ![t] = "lock"]
    /\ UNCHANGED <<calls, counts, containers, engine, container_id, node_idx,
                   attempts, firstBuild, observed, result, execLocals, process,
                   tasks, task_counter, lock, parent_id, task_id>>

\* Lines 75-88: create_subtask is called and waits for the lock.
CreateSubtaskCall(t, parent, owner) ==
    /\ UNCHANGED notTm
    /\ pc[t] = "idle"
    /\ op' = [op EXCEPT ![t] = "create_subtask"]
    /\ parent_id' = [parent_id EXCEPT ![t] = parent]
    /\ request' = [request EXCEPT ![t].owner_id = owner]
    /\ pc' = [pc EXCEPT ![t] = "lock"]
    /\ UNCHANGED <<calls, counts, containers, engine, container_id, node_idx,
                   attempts, firstBuild, observed, result, execLocals, process,
                   tasks, task_counter, lock, task_id>>

\* Lines 55, 88 and 142: `with self._lock` is entered.
LockAcquired(t) ==
    /\ UNCHANGED notTm
    /\ UNCHANGED request
    /\ pc[t] = "lock"
    /\ lock = NoThread
    /\ lock' = Acquire(lock, t)
    /\ pc' = [pc EXCEPT ![t] = IF op[t] = "create_subtask" THEN "validate"
                                ELSE IF op[t] = "update_status" THEN "update"
                                ELSE "count"]
    /\ UNCHANGED <<calls, counts, containers, engine, op, container_id, node_idx,
                   attempts, firstBuild, observed, result, execLocals, process,
                   tasks, task_counter, parent_id, task_id>>

\* Lines 89-95: the parent is looked up and its depth tested; ValueError
\* leaves the block and frees the lock.
ParentValidated(t) ==
    /\ UNCHANGED notTm
    /\ UNCHANGED request
    /\ pc[t] = "validate"
    /\ IF parent_id[t] \notin DOMAIN tasks
       THEN /\ Finish(t, "ValueError")
            /\ lock' = NoThread
       ELSE IF DepthExceeded(tasks[parent_id[t]].depth)
       THEN /\ Finish(t, "ValueError")
            /\ lock' = NoThread
       ELSE /\ pc' = [pc EXCEPT ![t] = "count"]
            /\ UNCHANGED <<result, lock>>
    /\ UNCHANGED <<calls, counts, containers, engine, op, container_id, node_idx,
                   attempts, firstBuild, observed, execLocals, process,
                   tasks, task_counter, parent_id, task_id>>

\* Lines 56 and 98: self.task_counter += 1
CounterIncremented(t) ==
    /\ UNCHANGED notTm
    /\ UNCHANGED request
    /\ pc[t] = "count"
    /\ task_counter' = task_counter + 1
    /\ pc' = [pc EXCEPT ![t] = "insert"]
    /\ UNCHANGED <<calls, counts, containers, engine, op, container_id, node_idx,
                   attempts, firstBuild, observed, result, execLocals, process,
                   tasks, lock, parent_id, task_id>>

\* Lines 57-73 and 99-132: the id is made from the counter as it is now,
\* the task is built, appended to its parent's child_ids and stored; the
\* block ends and the id is returned.
TaskStored(t) ==
    /\ UNCHANGED notTm
    /\ UNCHANGED request
    /\ pc[t] = "insert"
    /\ LET id == TaskId(task_counter)
       IN /\ task_id' = [task_id EXCEPT ![t] = id]
          /\ tasks' =
                IF op[t] = "create_subtask"
                THEN PutTask(AppendChild(tasks, parent_id[t], id), id,
                             NewTask(id, tasks[parent_id[t]].depth + 1, parent_id[t],
                                     request[t].owner_id))
                ELSE PutTask(tasks, id, NewTask(id, 0, NoTask, request[t].owner_id))
    /\ lock' = NoThread
    /\ Finish(t, "ok")
    /\ UNCHANGED <<calls, counts, containers, engine, op, container_id, node_idx,
                   attempts, firstBuild, observed, execLocals, process,
                   task_counter, parent_id>>

\* The agents that own tasks (tests/test_hierarchical_task_manager.py,
\* setup_method).
Orchestrator == "orchestrator"
Owners == {Orchestrator, "subagent1"}

\* Threads of the orchestrator that create tasks and subtasks, under any
\* parent id, until MaxTaskIds ids are given out.
TaskIds == {TaskId(n) : n \in 1..MaxTaskIds}

\* The ids given out and those the calls under way may still take.
IdsAsked ==
    task_counter + Cardinality({t \in Tasks : pc[t] \in {"lock", "validate", "count"}})

TmNext ==
    \/ \E t \in Tasks : IdsAsked < MaxTaskIds /\ CreateTaskCall(t, Orchestrator)
    \/ \E t \in Tasks, parent \in TaskIds :
            IdsAsked < MaxTaskIds /\ CreateSubtaskCall(t, parent, Orchestrator)
    \/ \E t \in Tasks : LockAcquired(t)
    \/ \E t \in Tasks : ParentValidated(t)
    \/ \E t \in Tasks : CounterIncremented(t)
    \/ \E t \in Tasks : TaskStored(t)
    \/ \E t \in Tasks : Return(t)

InitTm == InitWith(TmThreads, NumNodes)

SpecTm == InitTm /\ [][TmNext]_vars

----------------------------------------------------------------------------
\* update_status and get_aggregated_status.

Statuses == {"created", "completed", "failed"}
Messages == {"none", "error"}

\* A plausible slip: the owner is not compared.
AnyOwner(task_owner, owner) == TRUE

\* Line 148: task.owner_id != owner_id raises PermissionError.
OwnerMatches(task_owner, owner) == task_owner = owner

\* Lines 152-158: the status is set, the error message when one is given,
\* the completion time when the status is COMPLETED.
WithStatus(task, status, msg) ==
    [task EXCEPT !.status = status,
                 !.error_message = IF msg # "none" THEN msg ELSE @,
                 !.completed_at = IF status = "completed" THEN "now" ELSE @]

\* Lines 134-142: update_status is called and waits for the lock.
UpdateStatusCall(t, id, status, owner, msg) ==
    /\ UNCHANGED notTm
    /\ pc[t] = "idle"
    /\ op' = [op EXCEPT ![t] = "update_status"]
    /\ task_id' = [task_id EXCEPT ![t] = id]
    /\ request' = [request EXCEPT ![t] =
                     [owner_id |-> owner, status |-> status, error_message |-> msg]]
    /\ pc' = [pc EXCEPT ![t] = "lock"]
    /\ UNCHANGED <<calls, counts, containers, engine, container_id, node_idx,
                   attempts, firstBuild, observed, result, execLocals, process,
                   tasks, task_counter, lock, parent_id>>

\* Lines 143-161: the task is looked up and its owner compared; ValueError
\* and PermissionError leave the block, otherwise the task is updated and
\* True returned.  The block ends and frees the lock.
StatusUpdated(t) ==
    /\ UNCHANGED notTm
    /\ pc[t] = "update"
    /\ IF task_id[t] \notin DOMAIN tasks
       THEN /\ Finish(t, "ValueError")
            /\ UNCHANGED tasks
       ELSE IF ~OwnerMatches(tasks[task_id[t]].owner_id, request[t].owner_id)
       THEN /\ Finish(t, "PermissionError")
            /\ UNCHANGED tasks
       ELSE /\ tasks' = [tasks EXCEPT ![task_id[t]] =
                           WithStatus(@, request[t].status, request[t].error_message)]
            /\ Finish(t, "ok")
    /\ lock' = NoThread
    /\ UNCHANGED <<calls, counts, containers, engine, op, container_id, node_idx,
                   attempts, firstBuild, observed, execLocals, process,
                   task_counter, parent_id, task_id, request>>

\* A plausible slip, the rule of the docstring (line 238): a failed child
\* counts as done.
AggregateFailedAsDone(child_statuses) ==
    IF \E i \in DOMAIN child_statuses : child_statuses[i] = "created"
    THEN "created"
    ELSE "completed"

\* Lines 255-263: the aggregation rules.
Aggregate(child_statuses) ==
    IF \E i \in DOMAIN child_statuses : child_statuses[i] \in {"created", "failed"}
    THEN "created"
    ELSE IF \A i \in DOMAIN child_statuses : child_statuses[i] = "completed"
    THEN "completed"
    ELSE "created"

\* Lines 240-263: get_aggregated_status.
RECURSIVE GetAggregatedStatus(_, _)
GetAggregatedStatus(m, id) ==
    IF id \notin DOMAIN m THEN "created"
    ELSE IF m[id].child_ids = <<>> THEN m[id].status
    ELSE Aggregate([i \in DOMAIN m[id].child_ids |->
                        GetAggregatedStatus(m, m[id].child_ids[i])])

\* Lines 231-263: get_aggregated_status(task_id) is called and returns; it
\* takes no lock.
GetAggregatedStatusCall(t, id) ==
    /\ UNCHANGED notTm
    /\ pc[t] = "idle"
    /\ op' = [op EXCEPT ![t] = "get_aggregated_status"]
    /\ task_id' = [task_id EXCEPT ![t] = id]
    /\ Finish(t, GetAggregatedStatus(tasks, id))
    /\ UNCHANGED <<calls, counts, containers, engine, container_id, node_idx,
                   attempts, firstBuild, observed, execLocals, process,
                   tasks, task_counter, lock, parent_id, request>>

OwnedTaskIds == {TaskId(n) : n \in 1..(MaxOwnedTasks + 1)}

\* A thread that creates tasks and subtasks as either owner and updates
\* them as either owner, for the ids of tasks and for one id more.
StatusNext ==
    \/ \E t \in Tasks, owner \in Owners :
            task_counter < MaxOwnedTasks /\ CreateTaskCall(t, owner)
    \/ \E t \in Tasks, parent \in OwnedTaskIds, owner \in Owners :
            task_counter < MaxOwnedTasks /\ CreateSubtaskCall(t, parent, owner)
    \/ \E t \in Tasks, id \in OwnedTaskIds, status \in Statuses,
          owner \in Owners, msg \in Messages :
            UpdateStatusCall(t, id, status, owner, msg)
    \/ \E t \in Tasks : LockAcquired(t)
    \/ \E t \in Tasks : ParentValidated(t)
    \/ \E t \in Tasks : CounterIncremented(t)
    \/ \E t \in Tasks : TaskStored(t)
    \/ \E t \in Tasks : StatusUpdated(t)
    \/ \E t \in Tasks : Return(t)

SpecStatus == InitWith(1, NumNodes) /\ [][StatusNext]_vars

StatusTaskIds == {TaskId(n) : n \in 1..MaxStatusTasks}

\* A thread of the orchestrator that creates tasks and subtasks, updates
\* them and asks for aggregated statuses.
AggregateNext ==
    \/ \E t \in Tasks :
            task_counter < MaxStatusTasks /\ CreateTaskCall(t, Orchestrator)
    \/ \E t \in Tasks, parent \in StatusTaskIds :
            task_counter < MaxStatusTasks /\ CreateSubtaskCall(t, parent, Orchestrator)
    \/ \E t \in Tasks, id \in StatusTaskIds, status \in Statuses :
            UpdateStatusCall(t, id, status, Orchestrator, "none")
    \/ \E t \in Tasks, id \in StatusTaskIds : GetAggregatedStatusCall(t, id)
    \/ \E t \in Tasks : LockAcquired(t)
    \/ \E t \in Tasks : ParentValidated(t)
    \/ \E t \in Tasks : CounterIncremented(t)
    \/ \E t \in Tasks : TaskStored(t)
    \/ \E t \in Tasks : StatusUpdated(t)
    \/ \E t \in Tasks : Return(t)

SpecAggregate == InitWith(1, NumNodes) /\ [][AggregateNext]_vars

----------------------------------------------------------------------------
\* cleanup_all, close and the context manager: the registry is emptied by one
\* close_container task per entry, and close drops the clients.

Registered == {id \in Ids : containers[id] # NoNode}

\* The task that gather makes of close_container(id).
ChildOf(id) == id + 1

\* The coroutine that calls cleanup_all, close or the context manager.
Caller == 1

Size(c) == Cardinality(DOMAIN c)

\* Lines 60-62: self.active_container_counts.append(0), once per endpoint.
AppendZeros(c, k) ==
    [i \in 0..(Size(c) + k - 1) |-> IF i \in DOMAIN c THEN c[i] ELSE 0]

\* Lines 54-67: _ensure_initialized appends one client and one zero count per
\* endpoint unless self._initialized is set.
EnsureInitialized ==
    IF initialized
    THEN UNCHANGED <<clients, counts, initialized>>
    ELSE /\ clients' = clients + docker_endpoints
         /\ counts' = AppendZeros(counts, docker_endpoints)
         /\ initialized' = TRUE

Outcomes(c) ==
    [id \in {container_id[u] : u \in awaited[c]} |->
        result[CHOOSE u \in awaited[c] : container_id[u] = id]]

\* A plausible slip: gather without return_exceptions raises the first
\* failure of a task to the caller.
GatherRaises(rs) ==
    IF \E id \in DOMAIN rs : rs[id] # "ok"
    THEN rs[CHOOSE id \in DOMAIN rs : rs[id] # "ok"]
    ELSE "ok"

\* Line 491: asyncio.gather(*tasks, return_exceptions=True) returns the
\* failures in its list and raises none.
GatherOutcome(rs) == "ok"

\* Lines 488-491 (and 592, 51 through them): _ensure_initialized, the keys of
\* the registry are listed and gather makes a task of close_container for
\* each; the tasks start at a later turn of the loop.
CleanupStarts(c, o) ==
    /\ UNCHANGED notLife
    /\ UNCHANGED <<execLocals, process>>
    /\ pc[c] = "idle"
    /\ \A id \in Registered : ChildOf(id) # c /\ pc[ChildOf(id)] = "idle"
    /\ calls' = calls + 1
    /\ EnsureInitialized
    /\ LET started == {ChildOf(id) : id \in Registered}
       IN /\ pc' = [t \in Tasks |-> IF t = c THEN "gather"
                                    ELSE IF t \in started THEN "scheduled" ELSE pc[t]]
          /\ op' = [t \in Tasks |-> IF t = c THEN o
                                    ELSE IF t \in started THEN "stop" ELSE op[t]]
          /\ container_id' = [t \in Tasks |-> IF t \in started THEN t - 1
                                              ELSE container_id[t]]
          /\ awaited' = [awaited EXCEPT ![c] = started]
    /\ gathered' = [gathered EXCEPT ![c] = <<>>]
    /\ UNCHANGED <<docker_endpoints, containers, engine, node_idx, attempts,
                   firstBuild, observed, result>>

\* Lines 484-491: cleanup_all().
CleanupCall(c) == CleanupStarts(c, "cleanup")

\* Lines 589-592: close() starts with cleanup_all().
CloseCall(c) == CleanupStarts(c, "close")

\* Lines 49-51: __aexit__ starts with cleanup_all().
ExitCall(c) == CleanupStarts(c, "exit")

\* Lines 44-47: __aenter__ is _ensure_initialized.
EnterCall(c) ==
    /\ UNCHANGED notLife
    /\ UNCHANGED <<execLocals, process>>
    /\ pc[c] = "idle"
    /\ calls' = calls + 1
    /\ EnsureInitialized
    /\ op' = [op EXCEPT ![c] = "enter"]
    /\ Finish(c, "ok")
    /\ UNCHANGED <<docker_endpoints, awaited, gathered, containers, engine,
                   container_id, node_idx, attempts, firstBuild, observed>>

\* Lines 345-350: a task of gather runs close_container up to its first
\* await of the engine: the registry answers the lookup (lines 116-118) or
\* the endpoints are asked.
StopStarts(u) ==
    /\ UNCHANGED aside
    /\ UNCHANGED <<execLocals, process>>
    /\ UNCHANGED calls
    /\ pc[u] = "scheduled" /\ op[u] = "stop"
    /\ IF containers[container_id[u]] # NoNode
       THEN /\ node_idx' = [node_idx EXCEPT ![u] = containers[container_id[u]]]
            /\ pc' = [pc EXCEPT ![u] = "stopping"]
       ELSE /\ node_idx' = [node_idx EXCEPT ![u] = 0]
            /\ pc' = [pc EXCEPT ![u] = "probe"]
    /\ UNCHANGED <<counts, containers, engine, op, container_id, attempts,
                   firstBuild, observed, result>>

\* Lines 349-352, 365: container.stop raises what is no DockerError (the
\* connection to the endpoint is lost); neither handler takes it and
\* close_container raises it, the count and the entry as they were.
StopBreaks(u) ==
    /\ UNCHANGED aside
    /\ UNCHANGED calls
    /\ pc[u] = "stopping"
    /\ Finish(u, "ConnectionError")
    /\ UNCHANGED <<counts, containers, engine, op, container_id, node_idx,
                   attempts, firstBuild, observed, execLocals, process>>

\* Line 491: every task of the gather has ended; its list of outcomes is
\* returned.  cleanup_all returns (line 491); close and __aexit__ go on to
\* close the clients (lines 593, 52).
Gathered(c) ==
    /\ UNCHANGED notLife
    /\ UNCHANGED <<execLocals, process>>
    /\ UNCHANGED calls
    /\ pc[c] = "gather"
    /\ \A u \in awaited[c] : pc[u] = "done"
    /\ LET ended == awaited[c]
           raised == GatherOutcome(Outcomes(c))
       IN /\ gathered' = [gathered EXCEPT ![c] = Outcomes(c)]
          /\ awaited' = [awaited EXCEPT ![c] = {}]
          /\ pc' = [t \in Tasks |->
                      IF t \in ended THEN "idle"
                      ELSE IF t # c THEN pc[t]
                      ELSE IF op[c] = "cleanup" \/ raised # "ok" THEN "done"
                      ELSE "clients_close"]
          /\ result' = [t \in Tasks |->
                          IF t \in ended THEN "none"
                          ELSE IF t # c THEN result[t]
                          ELSE IF op[c] = "cleanup" \/ raised # "ok" THEN raised
                          ELSE result[c]]
          /\ op' = [t \in Tasks |-> IF t \in ended THEN "none" ELSE op[t]]
          /\ container_id' = [t \in Tasks |-> IF t \in ended THEN NoId
                                              ELSE container_id[t]]
          /\ node_idx' = [t \in Tasks |-> IF t \in ended THEN NoNode
                                          ELSE node_idx[t]]
    /\ UNCHANGED <<docker_endpoints, clients, initialized, counts, containers,
                   engine, attempts, firstBuild, observed>>

\* Lines 593-597: the clients are closed; close() then sets self.clients = []
\* and self._initialized = False and leaves self.active_container_counts.
\* Line 52: __aexit__ closes the clients and resets nothing.
ClientsClosed(c) ==
    /\ UNCHANGED notLife
    /\ UNCHANGED calls
    /\ pc[c] = "clients_close"
    /\ IF op[c] = "close"
       THEN /\ clients' = 0
            /\ initialized' = FALSE
       ELSE UNCHANGED <<clients, initialized>>
    /\ Finish(c, "ok")
    /\ UNCHANGED <<docker_endpoints, awaited, gathered, counts, containers,
                   engine, op, container_id, node_idx, attempts, firstBuild,
                   observed, execLocals, process>>

\* A manager with one client per endpoint whose runs have registered the
\* first containers, each on the node that was least loaded at its run.
InitLife(nIds, nNodes) ==
    /\ InitAside(nIds + 1, nNodes)
    /\ calls = 0
    /\ \E r \in 0..nIds :
        /\ engine = [i \in 1..nIds |->
                        IF i <= r THEN [node |-> (i - 1) % nNodes, status |-> "running"]
                        ELSE Absent]
        /\ containers = [i \in 1..nIds |-> IF i <= r THEN (i - 1) % nNodes ELSE NoNode]
        /\ counts = [n \in 0..(nNodes - 1) |->
                        Cardinality({i \in 1..r : (i - 1) % nNodes = n})]
    /\ pc = [t \in 1..(nIds + 1) |-> "idle"]
    /\ op = [t \in 1..(nIds + 1) |-> "none"]
    /\ container_id = [t \in 1..(nIds + 1) |-> NoId]
    /\ node_idx = [t \in 1..(nIds + 1) |-> NoNode]
    /\ attempts = [t \in 1..(nIds + 1) |-> 0]
    /\ firstBuild = [t \in 1..(nIds + 1) |-> "none"]
    /\ observed = [t \in 1..(nIds + 1) |-> "none"]
    /\ result = [t \in 1..(nIds + 1) |-> "none"]
    /\ timeout = [t \in 1..(nIds + 1) |-> NoTimeout]
    /\ elapsed = [t \in 1..(nIds + 1) |-> 0]
    /\ received = [t \in 1..(nIds + 1) |-> <<>>]
    /\ stdout_chunks = [t \in 1..(nIds + 1) |-> <<>>]
    /\ stderr_chunks = [t \in 1..(nIds + 1) |-> <<>>]
    /\ session = [t \in 1..(nIds + 1) |-> "none"]
    /\ process = [t \in 1..(nIds + 1) |-> "none"]

LifeNext ==
    \/ calls < MaxCalls /\ CleanupCall(Caller)
    \/ calls < MaxCalls /\ CloseCall(Caller)
    \/ calls < MaxCalls /\ ExitCall(Caller)
    \/ calls < MaxCalls /\ EnterCall(Caller)
    \/ \E u \in Tasks : StopStarts(u)
    \/ \E u \in Tasks : StopReturns(u)
    \/ \E u \in Tasks : StopBreaks(u)
    \/ \E u \in Tasks : DeleteReturns(u)
    \/ Gathered(Caller)
    \/ ClientsClosed(Caller)
    \/ Return(Caller)
    \/ \E id \in Ids : EngineRemoves(id)

SpecLife == InitLife(MaxContainers, NumNodes) /\ [][LifeNext]_vars

\* cleanup_all beside direct stops: the caller's cleanup_all and stops that
\* other coroutines call for the same containers.  No engine call is taken
\* to break.
StopsNext ==
    \/ calls < MaxCalls /\ CleanupCall(Caller)
    \/ \E u \in Tasks \ {Caller}, id \in Ids : calls < MaxCalls /\ StopCall(u, id)
    \/ \E u \in Tasks : StopStarts(u)
    \/ \E u \in Tasks : ProbeReturns(u)
    \/ \E u \in Tasks : StopReturns(u)
    \/ \E u \in Tasks : DeleteReturns(u)
    \/ Gathered(Caller)
    \/ \E u \in Tasks \ awaited[Caller] : Return(u)
    \/ \E id \in Ids : EngineRemoves(id)

SpecStops == InitLife(MaxContainers, NumNodes) /\ [][StopsNext]_vars

----------------------------------------------------------------------------
\* copy_file_to_container, and the exec that reads the copied file back.

\* The local files: one of text, one whose bytes are no UTF-8; every other
\* path is missing.
Sources == {"text", "binary", "missing"}
LocalFiles == [src \in {"text", "binary"} |->
                 IF src = "text" THEN <<"a", "b">> ELSE <<"a", "xFF">>]
Dests == Paths \cup {<<"f">>}

\* A plausible slip: a missing file is read as an empty one.
AlwaysReadable(src) == TRUE

\* Lines 384-385: aiofiles.open(local_file_path, 'rb') raises for a missing
\* file.
Readable(src) == src \in DOMAIN LocalFiles

FileData(src) == IF src \in DOMAIN LocalFiles THEN LocalFiles[src] ELSE <<>>

\* os.path.dirname and os.path.basename
Dirname(path) == SubSeq(path, 1, Len(path) - 1)
Basename(path) == path[Len(path)]

\* Line 394: os.path.dirname(container_file_path) or '/'
PutPath(path) == IF Dirname(path) = <<>> THEN Root ELSE Dirname(path)

\* Lines 579-587: one entry, named by the base name, of the data's length.
CreateFileTarArchive(file_data, container_file_path) ==
    [name |-> Basename(container_file_path), size |-> Len(file_data),
     data |-> file_data]

\* The engine extracts the archive's entry into the directory `path`.
Extract(fs, path, tar) == [fs EXCEPT ![path \o <<tar.name>>] = SubSeq(tar.data, 1, tar.size)]

\* The path a command of the container means by `path`.
Resolve(path, cwd) == IF Head(path) = "/" THEN path ELSE cwd \o path

\* The manager's and the engine's state when the copy was called: what the
\* properties compare its end with.
Snapshot == [containers |-> containers, counts |-> counts, files |-> files,
             engine |-> engine]

\* Lines 378-384, entry: a registered id is answered from self.containers
\* without suspending and the local file is opened; otherwise the first
\* endpoint is asked for the container.
CopyCall(t, id, src, dest) ==
    /\ UNCHANGED notCopy
    /\ UNCHANGED <<execLocals, process>>
    /\ pc[t] = "idle"
    /\ calls' = calls + 1
    /\ op' = [op EXCEPT ![t] = "copy"]
    /\ container_id' = [container_id EXCEPT ![t] = id]
    /\ copy' = [copy EXCEPT ![t] =
                  [local_file_path |-> src, container_file_path |-> dest,
                   file_data |-> <<>>, tar_data |-> NoTar, before |-> Snapshot]]
    /\ IF containers[id] # NoNode
       THEN /\ node_idx' = [node_idx EXCEPT ![t] = containers[id]]
            /\ pc' = [pc EXCEPT ![t] = "read"]
       ELSE /\ node_idx' = [node_idx EXCEPT ![t] = 0]
            /\ pc' = [pc EXCEPT ![t] = "probe"]
    /\ UNCHANGED <<files, workdir, counts, containers, engine, attempts,
                   firstBuild, observed, result>>

\* Lines 384-385: the file is read whole, or opening it raises.
FileRead(t) ==
    /\ UNCHANGED notCopy
    /\ UNCHANGED <<execLocals, process>>
    /\ UNCHANGED calls
    /\ pc[t] = "read"
    /\ IF Readable(copy[t].local_file_path)
       THEN /\ copy' = [copy EXCEPT ![t].file_data = FileData(copy[t].local_file_path)]
            /\ pc' = [pc EXCEPT ![t] = "tar"]
            /\ UNCHANGED result
       ELSE /\ Finish(t, "FileNotFoundError")
            /\ UNCHANGED copy
    /\ UNCHANGED <<files, workdir, counts, containers, engine, op, container_id,
                   node_idx, attempts, firstBuild, observed>>

\* Lines 388-390: the executor's thread has made the archive.
TarMade(t) ==
    /\ UNCHANGED notCopy
    /\ UNCHANGED <<execLocals, process>>
    /\ UNCHANGED calls
    /\ pc[t] = "tar"
    /\ copy' = [copy EXCEPT ![t].tar_data =
                  CreateFileTarArchive(copy[t].file_data, copy[t].container_file_path)]
    /\ pc' = [pc EXCEPT ![t] = "upload"]
    /\ UNCHANGED <<files, workdir, counts, containers, engine, op, container_id,
                   node_idx, attempts, firstBuild, observed, result>>

\* Lines 393-396: container.put_archive returns when the engine has
\* extracted the archive, which it does for a stopped container as for a
\* running one; it raises DockerError for a container that is gone, and
\* nothing handles the error.  No status is read before.
PutArchiveReturns(t) ==
    /\ UNCHANGED notCopy
    /\ UNCHANGED <<execLocals, process>>
    /\ UNCHANGED calls
    /\ pc[t] = "upload"
    /\ IF Exists(container_id[t])
       THEN /\ files' = Extract(files, PutPath(copy[t].container_file_path),
                                copy[t].tar_data)
            /\ Finish(t, "ok")
       ELSE /\ Finish(t, "EngineError")
            /\ UNCHANGED files
    /\ UNCHANGED <<workdir, copy, counts, containers, engine, op, container_id,
                   node_idx, attempts, firstBuild, observed>>

\* tests/test_async_docker_manager.py lines 57-66: the caller of a copy that
\* returned calls execute_command with `cat <container_file_path>` (entry of
\* execute_command as in ExecCall).
ReadCall(t) ==
    /\ UNCHANGED aside
    /\ pc[t] = "done" /\ op[t] = "copy" /\ result[t] = "ok"
    /\ calls' = calls + 1
    /\ op' = [op EXCEPT ![t] = "exec"]
    /\ result' = [result EXCEPT ![t] = "none"]
    /\ IF containers[container_id[t]] # NoNode
       THEN /\ node_idx' = [node_idx EXCEPT ![t] = containers[container_id[t]]]
            /\ pc' = [pc EXCEPT ![t] = "status"]
       ELSE /\ node_idx' = [node_idx EXCEPT ![t] = 0]
            /\ pc' = [pc EXCEPT ![t] = "probe"]
    /\ UNCHANGED <<counts, containers, engine, container_id, attempts,
                   firstBuild, observed, execLocals, process>>

\* The bytes of the received frames, in order.
RECURSIVE Bytes(_)
Bytes(msgs) == IF msgs = <<>> THEN <<>> ELSE Head(msgs).data \o Bytes(Tail(msgs))

\* What `cat` of the task's destination has still to write: the rest of the
\* file on stdout, or its complaint on stderr when there is no such file.
CatFile(t) == files[Resolve(copy[t].container_file_path, workdir)]

CatFrames(t) ==
    IF CatFile(t) = NoFile
    THEN IF received[t] = <<>>
         THEN {[type |-> "Message", stream |-> 2, data |-> NoFile]}
         ELSE {}
    ELSE LET sent == Len(Bytes(received[t]))
         IN {[type |-> "Message", stream |-> 1,
              data |-> SubSeq(CatFile(t), sent + 1, k)] :
                k \in (sent + 1)..Len(CatFile(t))}

\* Lines 459-470: read_out returns the next message `cat` wrote.
CatWrites(t) ==
    /\ session[t] = "running"
    /\ \E msg \in CatFrames(t) : FrameArrives(t, msg)

\* `cat` has written everything and ends.
CatEnds(t) ==
    /\ session[t] = "running"
    /\ CatFrames(t) = {}
    /\ CommandEnds(t)

\* One container, on any node, registered or not; commands start in one of
\* the working directories; no file has been copied.
InitCopy(nTasks) ==
    /\ InitTaskManager(nTasks)
    /\ InitClients(nTasks, NumNodes)
    /\ InitLog
    /\ InitAgent
    /\ files = [p \in Paths |-> NoFile]
    /\ workdir \in Workdirs
    /\ copy = [t \in 1..nTasks |-> NoCopy]
    /\ calls = 0
    /\ \E n \in 0..(NumNodes - 1), present, registered \in BOOLEAN :
        /\ engine = [i \in {TheId} |->
                        IF present THEN [node |-> n, status |-> "running"] ELSE Absent]
        /\ containers = [i \in {TheId} |->
                            IF present /\ registered THEN n ELSE NoNode]
        /\ counts = [m \in 0..(NumNodes - 1) |->
                        IF present /\ registered /\ m = n THEN 1 ELSE 0]
    /\ pc = [t \in 1..nTasks |-> "idle"]
    /\ op = [t \in 1..nTasks |-> "none"]
    /\ container_id = [t \in 1..nTasks |-> NoId]
    /\ node_idx = [t \in 1..nTasks |-> NoNode]
    /\ attempts = [t \in 1..nTasks |-> 0]
    /\ firstBuild = [t \in 1..nTasks |-> "none"]
    /\ observed = [t \in 1..nTasks |-> "none"]
    /\ result = [t \in 1..nTasks |-> "none"]
    /\ timeout = [t \in 1..nTasks |-> NoTimeout]
    /\ elapsed = [t \in 1..nTasks |-> 0]
    /\ received = [t \in 1..nTasks |-> <<>>]
    /\ stdout_chunks = [t \in 1..nTasks |-> <<>>]
    /\ stderr_chunks = [t \in 1..nTasks |-> <<>>]
    /\ session = [t \in 1..nTasks |-> "none"]
    /\ process = [t \in 1..nTasks |-> "none"]

CopyNext ==
    \/ \E t \in Tasks, id \in Ids, src \in Sources, dest \in Dests :
            calls < MaxCalls /\ CopyCall(t, id, src, dest)
    \/ \E t \in Tasks : ProbeReturns(t)
    \/ \E t \in Tasks : FileRead(t)
    \/ \E t \in Tasks : TarMade(t)
    \/ \E t \in Tasks : PutArchiveReturns(t)
    \/ \E t \in Tasks : calls < MaxCalls /\ ReadCall(t)
    \/ \E t \in Tasks : StatusReturns(t)
    \/ \E t \in Tasks : ExecCreateReturns(t)
    \/ \E t \in Tasks : StreamStarts(t)
    \/ \E t \in Tasks : CatWrites(t)
    \/ \E t \in Tasks : CatEnds(t)
    \/ \E t \in Tasks : StreamEnds(t)
    \/ \E t \in Tasks : Return(t)
    \/ \E id \in Ids : ContainerExits(id)
    \/ \E id \in Ids : EngineRemoves(id)

SpecCopy == InitCopy(1) /\ [][CopyNext]_vars

----------------------------------------------------------------------------
\* DockerExecutor.execute_background: the command is handed to a detached
\* task of the manager's execute_command, or to `docker exec -d`.

\* The task asyncio.create_task makes for the caller t.
DetachedOf(t) == t + 1

Record(who, lvl) == [task |-> who, level |-> lvl]

\* Lines 86-100, with a docker_manager: create_task schedules
\* execute_command(container_id, "nohup ... &") and the executor returns.
BackgroundCall(t, id) ==
    /\ UNCHANGED aside
    /\ pc[t] = "idle"
    /\ pc[DetachedOf(t)] \in {"idle", "destroyed"}
    /\ calls' = calls + 1
    /\ pc' = [pc EXCEPT ![t] = "done", ![DetachedOf(t)] = "scheduled"]
    /\ op' = [op EXCEPT ![t] = "background", ![DetachedOf(t)] = "exec"]
    /\ result' = [result EXCEPT ![t] = "ok", ![DetachedOf(t)] = "none"]
    /\ container_id' = [container_id EXCEPT ![t] = id, ![DetachedOf(t)] = id]
    /\ node_idx' = [node_idx EXCEPT ![DetachedOf(t)] = NoNode]
    /\ observed' = [observed EXCEPT ![DetachedOf(t)] = "none"]
    /\ session' = [session EXCEPT ![DetachedOf(t)] = "none"]
    /\ UNCHANGED <<counts, containers, engine, attempts, firstBuild, timeout,
                   elapsed, received, stdout_chunks, stderr_chunks, process>>

\* Lines 412-419, entry of the detached execute_command (as in ExecCall).
ExecStarts(u) ==
    /\ UNCHANGED aside
    /\ UNCHANGED calls
    /\ pc[u] = "scheduled" /\ op[u] = "exec"
    /\ IF containers[container_id[u]] # NoNode
       THEN /\ node_idx' = [node_idx EXCEPT ![u] = containers[container_id[u]]]
            /\ pc' = [pc EXCEPT ![u] = "status"]
       ELSE /\ node_idx' = [node_idx EXCEPT ![u] = 0]
            /\ pc' = [pc EXCEPT ![u] = "probe"]
    /\ UNCHANGED <<counts, containers, engine, op, container_id, attempts,
                   firstBuild, observed, result, execLocals, process>>

\* The detached task has ended and no reference to it is left: when it is
\* collected, the loop's handler logs the exception nobody retrieved.  The
\* executor's `except Exception` (lines 98-99) is long left.
TaskDestroyed(u, t) ==
    /\ UNCHANGED notLog
    /\ UNCHANGED calls
    /\ u = DetachedOf(t)
    /\ pc[u] = "done" /\ op[u] = "exec"
    /\ pc' = [pc EXCEPT ![u] = "destroyed"]
    /\ log' = IF result[u] # "ok" THEN log \cup {Record(u, "error")} ELSE log
    /\ UNCHANGED <<counts, containers, engine, op, container_id, node_idx,
                   attempts, firstBuild, observed, result, execLocals, process>>

\* Lines 102-108, without a docker_manager: create_subprocess_exec of
\* `docker exec -d <container> bash -c <cmd>` is awaited.
LegacyCall(t, id) ==
    /\ UNCHANGED aside
    /\ pc[t] = "idle"
    /\ calls' = calls + 1
    /\ op' = [op EXCEPT ![t] = "background_legacy"]
    /\ container_id' = [container_id EXCEPT ![t] = id]
    /\ pc' = [pc EXCEPT ![t] = "docker_spawn"]
    /\ UNCHANGED <<counts, containers, engine, node_idx, attempts, firstBuild,
                   observed, result, execLocals, process>>

\* Lines 104-108 and 119-121: the docker client runs, or it cannot be
\* started and the error is logged and dropped.
DockerExecSpawns(t) ==
    /\ UNCHANGED notLog
    /\ UNCHANGED calls
    /\ pc[t] = "docker_spawn"
    /\ \E started \in BOOLEAN :
        IF started
        THEN /\ process' = [process EXCEPT ![t] = "running"]
             /\ pc' = [pc EXCEPT ![t] = "brief_wait"]
             /\ UNCHANGED <<result, log>>
        ELSE /\ log' = log \cup {Record(t, "error")}
             /\ Finish(t, "ok")
             /\ UNCHANGED process
    /\ UNCHANGED <<counts, containers, engine, op, container_id, node_idx,
                   attempts, firstBuild, observed, execLocals>>

\* The docker client ends: with 0 when the engine has started the command
\* in a running container, with 1 when there is no such container or it
\* does not run.
DockerExecExits(t) ==
    /\ UNCHANGED aside
    /\ op[t] = "background_legacy"
    /\ process[t] = "running"
    /\ process' = [process EXCEPT ![t] =
                     IF Exists(container_id[t])
                        /\ IsRunning(engine[container_id[t]].status)
                     THEN "exit_0" ELSE "exit_1"]
    /\ UNCHANGED <<calls, counts, containers, engine, pc, op, container_id,
                   node_idx, attempts, firstBuild, observed, result, execLocals>>

\* Lines 112-115: proc.wait() returns within the 0.1 s; a return code that
\* is not 0 is logged as a warning.
BriefWaitReturns(t) ==
    /\ UNCHANGED notLog
    /\ UNCHANGED calls
    /\ pc[t] = "brief_wait"
    /\ process[t] \in {"exit_0", "exit_1"}
    /\ log' = IF process[t] # "exit_0" THEN log \cup {Record(t, "warning")} ELSE log
    /\ Finish(t, "ok")
    /\ UNCHANGED <<counts, containers, engine, op, container_id, node_idx,
                   attempts, firstBuild, observed, execLocals, process>>

\* Lines 116-118: the 0.1 s are over and the docker client still runs:
\* `except asyncio.TimeoutError: pass`.
BriefWaitTimeout(t) ==
    /\ UNCHANGED aside
    /\ UNCHANGED calls
    /\ pc[t] = "brief_wait"
    /\ process[t] = "running"
    /\ Finish(t, "ok")
    /\ UNCHANGED <<counts, containers, engine, op, container_id, node_idx,
                   attempts, firstBuild, observed, execLocals, process>>

BackgroundNext ==
    \/ \E id \in Ids : calls < MaxCalls /\ BackgroundCall(Caller, id)
    \/ \E id \in Ids : calls < MaxCalls /\ LegacyCall(Caller, id)
    \/ \E u \in Tasks : ExecStarts(u)
    \/ \E u \in Tasks : ProbeReturns(u)
    \/ \E u \in Tasks : StatusReturns(u)
    \/ \E u \in Tasks : ExecCreateReturns(u)
    \/ \E u \in Tasks : StreamStarts(u)
    \/ \E u \in Tasks : CommandEnds(u)
    \/ \E u \in Tasks : StreamEnds(u)
    \/ \E u \in Tasks : TaskDestroyed(u, Caller)
    \/ DockerExecSpawns(Caller)
    \/ DockerExecExits(Caller)
    \/ BriefWaitReturns(Caller)
    \/ BriefWaitTimeout(Caller)
    \/ Return(Caller)
    \/ \E id \in Ids : ContainerExits(id)
    \/ \E id \in Ids : EngineRemoves(id)

\* One executor and the task it detaches, over the one container of InitExec.
SpecBackground == InitExec(DetachedOf(Caller)) /\ [][BackgroundNext]_vars

----------------------------------------------------------------------------
\* Cancellation of the task that awaits spin_up_container_from_dir.

\* Lines 180-268: the calling task is cancelled while the run is suspended in
\* _build_image or in an engine call; the await raises
\* asyncio.CancelledError, a BaseException, which `except Exception` of
\* line 260 does not take: lines 262-263 are not run and the call ends with
\* the count of line 173 as it is and nothing registered.
RunCancelled(t) ==
    /\ UNCHANGED aside
    /\ UNCHANGED <<execLocals, process>>
    /\ UNCHANGED calls
    /\ InFlightRun(t)
    /\ Finish(t, "CancelledError")
    /\ UNCHANGED <<counts, containers, engine, op, container_id, node_idx,
                   attempts, firstBuild, observed>>

CancelNext ==
    \/ \E t \in Tasks : RunCall(t)
    \/ \E t \in Tasks : BuildReturns(t)
    \/ \E t \in Tasks : CreateReturns(t)
    \/ \E t \in Tasks : StartReturns(t)
    \/ \E t \in Tasks : ShowReturns(t)
    \/ \E t \in Tasks : LogReturns(t)
    \/ \E t \in Tasks : RunCancelled(t)

\* Concurrent runContainer calls whose tasks may be cancelled.
SpecCancel == Init /\ [][CancelNext]_vars

----------------------------------------------------------------------------
\* The extent of `async with self._node_selection_lock` in
\* spin_up_container_from_dir.

\* A plausible slip: the `async with` of line 170 is left open over the try
\* block, so that the build is awaited with the lock held.
LockedThroughBuild == {"build", "rebuild"}

\* The awaits of a run that sit inside `async with
\* self._node_selection_lock`: lines 170-173 and 262-263 have no await
\* within the block, the lock is released in the step that acquired it.
LockedAwaits == {}

\* The tasks that hold the lock while they are suspended.
NodeSelectionLockHolders == {t \in Tasks : op[t] = "run" /\ pc[t] \in LockedAwaits}

\* Lines 170 and 262: `async with` goes on when no other task holds the
\* lock; the step A of task t is taken when it passes no locked site or the
\* lock can be acquired.
WithLock(t, A) ==
    /\ A
    /\ (\E site \in SitesOf(t) : HoldsLock(site)) =>
            NodeSelectionLockHolders \subseteq {t}

\* The last container is there from the start, run and registered by this
\* manager on node 0; the task of its number only calls execute_command.
InitOverlap(nTasks) ==
    /\ InitAside(nTasks, NumNodes)
    /\ calls = 0
    /\ counts = [n \in 0..(NumNodes - 1) |-> IF n = 0 THEN 1 ELSE 0]
    /\ containers = [i \in 1..nTasks |-> IF i = nTasks THEN 0 ELSE NoNode]
    /\ engine = [i \in 1..nTasks |->
                    IF i = nTasks THEN [node |-> 0, status |-> "running"] ELSE Absent]
    /\ pc = [t \in 1..nTasks |-> "idle"]
    /\ op = [t \in 1..nTasks |-> "none"]
    /\ container_id = [t \in 1..nTasks |-> NoId]
    /\ node_idx = [t \in 1..nTasks |-> NoNode]
    /\ attempts = [t \in 1..nTasks |-> 0]
    /\ firstBuild = [t \in 1..nTasks |-> "none"]
    /\ observed = [t \in 1..nTasks |-> "none"]
    /\ result = [t \in 1..nTasks |-> "none"]
    /\ timeout = [t \in 1..nTasks |-> NoTimeout]
    /\ elapsed = [t \in 1..nTasks |-> 0]
    /\ received = [t \in 1..nTasks |-> <<>>]
    /\ stdout_chunks = [t \in 1..nTasks |-> <<>>]
    /\ stderr_chunks = [t \in 1..nTasks |-> <<>>]
    /\ session = [t \in 1..nTasks |-> "none"]
    /\ process = [t \in 1..nTasks |-> "none"]

OverlapNext ==
    \/ \E t \in Tasks : WithLock(t, RunCall(t))
    \/ \E t \in Tasks : WithLock(t, BuildReturns(t))
    \/ \E t \in Tasks : WithLock(t, CreateReturns(t))
    \/ \E t \in Tasks : WithLock(t, StartReturns(t))
    \/ \E t \in Tasks : WithLock(t, ShowReturns(t))
    \/ \E t \in Tasks : WithLock(t, LogReturns(t))
    \/ \E t \in Tasks, id \in Ids :
            containers[id] # NoNode /\ ExecCall(t, id, NoTimeout)
    \/ \E t \in Tasks : StatusReturns(t)
    \/ \E t \in Tasks : ExecCreateReturns(t)
    \/ \E t \in Tasks : StreamStarts(t)
    \/ \E t \in Tasks : CommandEnds(t)
    \/ \E t \in Tasks : StreamEnds(t)

\* Concurrent runContainer calls beside execs of containers that run, each
\* task calling once.
SpecOverlap == InitOverlap(OverlapCallers) /\ [][OverlapNext]_vars

----------------------------------------------------------------------------
\* Termination of spin_up_container_from_dir and of _build_image.

\* A plausible slip: build_with_timeout() is awaited without wait_for, and
\* nothing ends the wait for a process that does not end.
BuildWaitsForever(t) ==
    /\ pc[t] = "streaming"
    /\ elapsed[t] = BuildCeiling
    /\ UNCHANGED vars

\* Lines 314-318: what the 600-second ceiling does to a build.
BuildCeilingReached(t) == BuildDeadline(t)

\* What a call in flight does by itself: the engine call, the settle delay
\* or the subprocess spawn it awaits returns, time passes under wait_for,
\* the ceiling is reached, the killed process is reaped.  That the build
\* process ends by itself (ProcessExits) is not among them.
Proceeds(t) ==
    \/ BuildReturns(t)
    \/ CreateReturns(t)
    \/ StartReturns(t)
    \/ ShowReturns(t)
    \/ LogReturns(t)
    \/ SpawnReturns(t)
    \/ BuildTick(t)
    \/ BuildEnds(t)
    \/ BuildCeilingReached(t)
    \/ BuildReaped(t)

TerminationNext ==
    \/ \E t \in Tasks : RunCall(t)
    \/ \E t \in Tasks : BuildImageCall(t)
    \/ \E t \in Tasks : ProcessExits(t)
    \/ \E t \in Tasks : BuildReturns(t)
    \/ \E t \in Tasks : CreateReturns(t)
    \/ \E t \in Tasks : StartReturns(t)
    \/ \E t \in Tasks : ShowReturns(t)
    \/ \E t \in Tasks : LogReturns(t)
    \/ \E t \in Tasks : SpawnReturns(t)
    \/ \E t \in Tasks : BuildTick(t)
    \/ \E t \in Tasks : BuildEnds(t)
    \/ \E t \in Tasks : BuildCeilingReached(t)
    \/ \E t \in Tasks : BuildReaped(t)

\* Two tasks, each calling spin_up_container_from_dir or _build_image once;
\* every awaited engine call and delay returns in the end.
SpecTermination ==
    /\ InitWith(2, NumNodes)
    /\ [][TerminationNext]_vars
    /\ \A t \in 1..2 : WF_vars(Proceeds(t))

----------------------------------------------------------------------------
\* The daemon each engine operation of spin_up_container_from_dir goes to.

\* The daemon a docker CLI process talks to when its environment is the
\* manager's own: DOCKER_HOST of the environment or the local socket, no
\* endpoint of self.docker_endpoints in particular.
AmbientDaemon == NoNode

\* Environment input: unix-socket and TCP forms of an endpoint address.
Schemes == {"unix", "tcp"}

\* The engine operations awaited at each position of a run.  Lines 184 and
\* 210: docker build; lines 192-195: images.list and images.delete; lines
\* 203-205: the two prune commands; lines 216-228: containers.create; line
\* 230: container.start; line 236: container.show; lines 89-95:
\* container.log.
EngineOps(position) ==
    CASE position = "build" -> {"docker build"}
      [] position = "rebuild" -> {"images.list", "images.delete",
                                  "docker image prune", "docker builder prune",
                                  "docker build"}
      [] position = "create" -> {"containers.create"}
      [] position = "start" -> {"container.start"}
      [] position = "show" -> {"container.show"}
      [] position = "logs" -> {"container.log"}
      [] OTHER -> {}

\* A plausible slip: only the tcp form is bound to DOCKER_HOST.
DockerHostTcpOnly(scheme, n) == IF scheme = "tcp" THEN n ELSE AmbientDaemon

\* Lines 279-286: env["DOCKER_HOST"] = endpoint for both forms of
\* self.docker_endpoints[node_idx]; the subprocess gets env (line 294).
DockerHost(scheme, n) == IF scheme \in {"tcp", "unix"} THEN n ELSE AmbientDaemon

\* The daemon operation o of a run with node index n reaches, the endpoint
\* of index n having the given form.  docker build: DOCKER_HOST of
\* _build_image; the client calls: client = self.clients[node_idx] of line
\* 175, made of docker_endpoints[node_idx] at line 59, and the container
\* object that client returned; the prune commands: _run_command, lines
\* 543-547, starts the process without env.
TargetOf(o, scheme, n) ==
    CASE o = "docker build" -> DockerHost(scheme, n)
      [] o \in {"docker image prune", "docker builder prune"} -> AmbientDaemon
      [] OTHER -> n

----------------------------------------------------------------------------
\* docker_system_cleanup (systemCleanup) and _run_command.

\* The docker commands of docker_system_cleanup in the order of lines
\* 500-536: ps, container prune, network ls, network prune, network ls,
\* image prune -a, builder prune.
CleanupCommands ==
    <<"ps", "container_prune", "network_ls", "network_prune", "network_ls_after",
      "image_prune", "builder_prune">>

CleanupPcs == {CleanupCommands[i] : i \in DOMAIN CleanupCommands}

Rank(position) == CHOOSE i \in DOMAIN CleanupCommands : CleanupCommands[i] = position

\* How a command of _run_command goes: it exits with code 0 and some or no
\* output, exits with another code, prints bytes that are no UTF-8, runs
\* beyond 30 seconds and is killed, has exited when process.kill() is called
\* (ProcessLookupError), or cannot be started.
CommandOutcomes ==
    {"exit_0_text", "exit_0_empty", "exit_1", "undecodable", "timeout",
     "timeout_kill_raises", "spawn_error"}

Returned(text) == [raised |-> "none", output |-> text]

Raised(error) == [raised |-> error, output |-> ""]

\* A plausible slip: the TimeoutError of wait_for leaves _run_command.
RunCommandTimeoutEscapes(outcome, check) ==
    IF outcome = "exit_0_text" THEN Returned("text")
    ELSE IF outcome \in {"timeout", "timeout_kill_raises"} THEN Raised("TimeoutError")
    ELSE Returned("")

\* Lines 540-565: stdout decoded when the command has ended (whatever its
\* exit code when check is false), "" for a timeout (lines 551-555), for a
\* non-zero exit code under check (lines 557-559) and for any Exception
\* (lines 562-565).
RunCommand(outcome, check) ==
    IF outcome = "exit_0_text" THEN Returned("text")
    ELSE IF outcome = "exit_1" /\ ~check THEN Returned("text")
    ELSE Returned("")

\* Lines 554, 558 and 564: what _run_command logs as an error.
CommandLogged(outcome, check) ==
    \/ outcome \in {"timeout"}
    \/ check /\ outcome \in {"exit_1", "undecodable", "timeout_kill_raises", "spawn_error"}

\* Lines 503-506: container prune is run when docker ps has listed some
\* container; every other command is followed by the next one.
NextCommand(position, output) ==
    IF position = "ps" /\ output = "" THEN "network_ls"
    ELSE IF position = "builder_prune" THEN "done"
    ELSE CleanupCommands[Rank(position) + 1]

\* Lines 493-502: docker_system_cleanup is called and awaits docker ps.
SystemCleanupCall(t) ==
    /\ UNCHANGED aside
    /\ UNCHANGED <<execLocals, process>>
    /\ pc[t] = "idle"
    /\ calls' = calls + 1
    /\ op' = [op EXCEPT ![t] = "system_cleanup"]
    /\ pc' = [pc EXCEPT ![t] = "ps"]
    /\ UNCHANGED <<counts, containers, engine, container_id, node_idx, attempts,
                   firstBuild, observed, result>>

\* Lines 500-538: the _run_command awaited returns (or raises); its output
\* is kept, and the next command is awaited or the cleanup returns.
CommandReturns(t) ==
    /\ UNCHANGED notLog
    /\ op[t] = "system_cleanup"
    /\ pc[t] \in CleanupPcs
    /\ \E outcome \in CommandOutcomes :
        LET r == RunCommand(outcome, TRUE)
            next == NextCommand(pc[t], r.output)
        IN /\ log' = IF CommandLogged(outcome, TRUE)
                     THEN log \cup {Record(t, "error")} ELSE log
           /\ IF r.raised # "none"
              THEN /\ Finish(t, r.raised)
                   /\ UNCHANGED stdout_chunks
              ELSE /\ stdout_chunks' = [stdout_chunks EXCEPT ![t] = Append(@, r.output)]
                   /\ IF next = "done"
                      THEN Finish(t, "ok")
                      ELSE pc' = [pc EXCEPT ![t] = next] /\ UNCHANGED result
    /\ UNCHANGED <<calls, counts, containers, engine, op, container_id, node_idx,
                   attempts, firstBuild, observed, timeout, elapsed, received,
                   stderr_chunks, session, process>>

ReaperNext ==
    \/ \E t \in Tasks : calls < MaxCalls /\ SystemCleanupCall(t)
    \/ \E t \in Tasks : CommandReturns(t)
    \/ \E t \in Tasks : Return(t)

\* One caller that runs docker_system_cleanup between batches of work.
SpecReaper == InitWith(1, NumNodes) /\ [][ReaperNext]_vars

----------------------------------------------------------------------------
\* TurnExecutor.execute
\* (src/src/multi_agent_coding_system/agents/env_interaction/turn_executor.py)
\* and OrchestratorAgent.run, execute_turn
\* (src/src/multi_agent_coding_system/agents/orchestrator_agent.py).

\* FinishAction and every other Action.
ActionKinds == {"finish", "other"}

RECURSIVE ListsUpTo(_)
ListsUpTo(n) ==
    IF n = 0 THEN {<<>>}
    ELSE LET shorter == ListsUpTo(n - 1)
         IN shorter \cup {Append(l, a) : l \in {s \in shorter : Len(s) = n - 1},
                                          a \in ActionKinds}

\* The actions parse_response may return for one LLM output.
ActionLists == ListsUpTo(MaxActions)

\* handle_action returns (output, False), returns (output, True) or raises.
HandleOutcomes == {"ok", "is_error", "raises"}

\* Lines 39-48 of turn_executor.py: the result for an output in which no
\* action was attempted.
NoAttemptResult ==
    [NoTurn EXCEPT !.has_error = TRUE, !.done = TRUE, !.returned = TRUE]

\* Lines 58-72: the result when parsing errors are all there is.
ParseErrorResult ==
    [NoTurn EXCEPT !.has_error = TRUE, !.done = FALSE, !.returned = TRUE]

\* Lines 50-62: the locals of execute before the first action is handled.
Executing(actions, parsing_errors) ==
    [NoTurn EXCEPT !.actions = actions, !.has_error = parsing_errors]

\* OrchestratorAgent.run is called after setup().
RunStarts(t) ==
    /\ UNCHANGED aside
    /\ UNCHANGED <<execLocals, process>>
    /\ pc[t] = "idle"
    /\ calls' = calls + 1
    /\ op' = [op EXCEPT ![t] = "agent_run"]
    /\ pc' = [pc EXCEPT ![t] = "loop"]
    /\ UNCHANGED <<counts, containers, engine, container_id, node_idx, attempts,
                   firstBuild, observed, result>>

\* Lines 268-276 of orchestrator_agent.py and 154-168: the loop goes into
\* its next turn; the environment state and the LLM response are awaited
\* (an Exception of either is logged by run, lines 281-288, and the loop
\* goes on); executor.execute parses the response (lines 35-72 of
\* turn_executor.py) and returns at once or awaits the first handle_action.
TurnStarts(t) ==
    /\ UNCHANGED notAgent
    /\ op[t] = "agent_run" /\ pc[t] = "loop"
    /\ ~state.done
    /\ state.turns_executed < MaxTurns
    /\ state' = [state EXCEPT !.turns_executed = @ + 1]
    /\ \E raised \in BOOLEAN :
        IF raised
        THEN UNCHANGED <<pc, turn>>
        ELSE \E found_action_attempt, parsing_errors \in BOOLEAN, actions \in ActionLists :
                IF ~found_action_attempt
                THEN /\ turn' = NoAttemptResult
                     /\ pc' = [pc EXCEPT ![t] = "returned"]
                ELSE IF parsing_errors /\ actions = <<>>
                THEN /\ turn' = ParseErrorResult
                     /\ pc' = [pc EXCEPT ![t] = "returned"]
                ELSE /\ turn' = Executing(actions, parsing_errors)
                     /\ pc' = [pc EXCEPT ![t] = "handling"]
    /\ UNCHANGED <<calls, counts, containers, engine, locals>>

\* Lines 75-94 of turn_executor.py: handle_action returns or raises for the
\* action at hand; a FinishAction that was handled ends the loop.
ActionHandled(t) ==
    /\ UNCHANGED notAgent
    /\ op[t] = "agent_run" /\ pc[t] = "handling"
    /\ turn.next <= Len(turn.actions)
    /\ LET action == turn.actions[turn.next]
       IN \E outcome \in HandleOutcomes :
            IF outcome = "raises"
            THEN turn' = [turn EXCEPT !.has_error = TRUE, !.next = @ + 1]
            ELSE turn' = [turn EXCEPT
                            !.actions_executed = Append(@, action),
                            !.has_error = @ \/ outcome = "is_error",
                            !.done = action = "finish",
                            !.next = IF action = "finish" THEN Len(turn.actions) + 1
                                                          ELSE @ + 1]
    /\ UNCHANGED <<state, calls, counts, containers, engine, pc, locals>>

\* Lines 96-124: the loop over the actions is over and the ExecutionResult
\* is returned.
ExecuteReturns(t) ==
    /\ UNCHANGED notAgent
    /\ op[t] = "agent_run" /\ pc[t] = "handling"
    /\ turn.next > Len(turn.actions)
    /\ turn' = [turn EXCEPT !.returned = TRUE]
    /\ pc' = [pc EXCEPT ![t] = "returned"]
    /\ UNCHANGED <<state, calls, counts, containers, engine, locals>>

\* Lines 203-206 and 277-279 of orchestrator_agent.py: execute_turn takes
\* result.done into the state and run leaves its loop on it.
TurnEnds(t) ==
    /\ UNCHANGED notAgent
    /\ op[t] = "agent_run" /\ pc[t] = "returned"
    /\ state' = [state EXCEPT !.done = @ \/ turn.done]
    /\ pc' = [pc EXCEPT ![t] = "loop"]
    /\ UNCHANGED <<turn, calls, counts, containers, engine, locals>>

\* Lines 268 and 290-300: the loop is over; the session ends as completed
\* when state.done, as max_turns_reached otherwise, and run returns.
RunEnds(t) ==
    /\ UNCHANGED notAgent
    /\ op[t] = "agent_run" /\ pc[t] = "loop"
    /\ state.done \/ state.turns_executed >= MaxTurns
    /\ state' = [state EXCEPT !.finish_reason =
                    IF state.done THEN "completed" ELSE "max_turns_reached"]
    /\ Finish(t, "ok")
    /\ UNCHANGED <<turn, calls, counts, containers, engine, op, container_id,
                   node_idx, attempts, firstBuild, observed, execLocals, process>>

AgentNext ==
    \/ \E t \in Tasks : RunStarts(t)
    \/ \E t \in Tasks : TurnStarts(t)
    \/ \E t \in Tasks : ActionHandled(t)
    \/ \E t \in Tasks : ExecuteReturns(t)
    \/ \E t \in Tasks : TurnEnds(t)
    \/ \E t \in Tasks : RunEnds(t)

\* One orchestrator run.
SpecAgent == InitWith(1, NumNodes) /\ [][AgentNext]_vars

----------------------------------------------------------------------------
\* Properties of the manager.

FailedRunResults == {"BuildError", "EngineError", "StartError"}

\* The slots node n stands for: the runContainer calls in flight that
\* reserved it, and the registered containers on it (the container of a call
\* in flight is that call's slot, counted once).
SlotsOn(n) ==
    {<<"call", t>> : t \in {u \in Tasks : InFlightRun(u) /\ node_idx[u] = n}}
    \cup
    {<<"container", i>> :
        i \in {j \in Ids : /\ containers[j] = n
                           /\ ~\E u \in Tasks : InFlightRun(u) /\ container_id[u] = j}}

\* C1: in every reachable state each endpoint's count is >= 0 and equals the
\* number of containers reserved (a runContainer call in flight on it) or
\* registered on that endpoint.
C1_CountMatchesSlots ==
    \A n \in Nodes : counts[n] >= 0 /\ counts[n] = Cardinality(SlotsOn(n))


\* A task took a step of its operation.
Stepped(t) == pc'[t] # pc[t] \/ node_idx'[t] # node_idx[t]

\* C2: a runContainer call that fails after its slot was reserved decrements
\* the reserved endpoint's count exactly once, at the failure and not before,
\* and adds no registry entry.
C2_FailedRunReleasesOnce ==
    [][\A t \in Tasks :
        InFlightRun(t) /\ Stepped(t) =>
            IF pc'[t] = "done" /\ result'[t] \in FailedRunResults
            THEN /\ counts' = [counts EXCEPT ![node_idx[t]] = @ - 1]
                 /\ containers' = containers
            ELSE counts' = counts]_vars

C2_Witness ==
    \E t \in Tasks :
        /\ op[t] = "run" /\ pc[t] = "done"
        /\ result[t] \in FailedRunResults
        /\ node_idx[t] \in Nodes
        /\ counts[node_idx[t]] = 0

RECURSIVE SumCounts(_, _)
SumCounts(c, S) ==
    IF S = {} THEN 0
    ELSE LET n == CHOOSE x \in S : TRUE IN c[n] + SumCounts(c, S \ {n})

NoCallInFlight == \A t \in Tasks : pc[t] \in {"idle", "done"}

\* The runContainer calls that were handed node n, and those of them that
\* released it again.
HandedNode(n) == {t \in Tasks : op[t] = "run" /\ node_idx[t] = n}
ReleasedNode(n) == {t \in HandedNode(n) : pc[t] = "done" /\ result[t] \in FailedRunResults}

\* C3: once all concurrent runContainer calls have completed, each
\* endpoint's count is the number of reservations it was handed minus the
\* releases on it, and the counts sum up to reservations minus releases.
C3_Conservation ==
    NoCallInFlight =>
        /\ \A n \in Nodes :
              counts[n] = Cardinality(HandedNode(n)) - Cardinality(ReleasedNode(n))
        /\ SumCounts(counts, Nodes) =
              Cardinality({t \in Tasks : node_idx[t] \in Nodes})
              - Cardinality({t \in Tasks : node_idx[t] \in Nodes
                                           /\ result[t] \in FailedRunResults})

C3_Witness ==
    /\ \A t \in Tasks : pc[t] = "done"
    /\ \E t \in Tasks : result[t] = "ok"
    /\ \E t \in Tasks : result[t] = "StartError"
    /\ \E t \in Tasks : result[t] = "BuildError"

\* C4: the node a reservation returns has a minimal count at the moment of
\* selection, and no lower index has the same count.
C4_SelectsLowestMinimal ==
    [][\A t \in Tasks :
        pc[t] = "idle" /\ pc'[t] = "build" =>
            LET n == node_idx'[t]
            IN /\ n \in Nodes
               /\ \A m \in Nodes : counts[n] <= counts[m]
               /\ \A m \in Nodes : m < n => counts[m] > counts[n]
               /\ counts' = [counts EXCEPT ![n] = @ + 1]]_vars

\* A selection made with unequal counts: the first node was not minimal.
C4_Witness ==
    \E t \in Tasks : pc[t] = "build" /\ node_idx[t] = 1 /\ counts[0] > 0

Abs(x) == IF x < 0 THEN -x ELSE x

\* C5: two endpoints, six concurrent runContainer calls, all completed
\* successfully: the two final counts differ by at most 1.
C5_SixCallsBalanced ==
    (\A t \in Tasks : pc[t] = "done" /\ result[t] = "ok")
        => Abs(counts[0] - counts[1]) <= 1

C5_Witness ==
    /\ Cardinality(Tasks) = SixCalls
    /\ \A t \in Tasks : pc[t] = "done" /\ result[t] = "ok"
    /\ counts[0] + counts[1] = SixCalls

InStop(t) == op[t] = "stop" /\ pc[t] \in {"probe", "stopping", "deleting"}

\* C6: stop on a registered id whose container the engine has removed does
\* not raise and decrements the owning node's count once, at its end; a
\* stop on the id after that (not registered, not on the engine) does not
\* raise and changes no count and no registry entry.
C6_StopOfRemovedContainer ==
    [][\A t \in Tasks :
        LET id == container_id[t]
        IN InStop(t) /\ Stepped(t) /\ Removed(id) =>
            /\ result'[t] \in {"none", "ok"}
            /\ (containers[id] # NoNode /\ pc[t] = "stopping") =>
                    /\ pc'[t] = "deleting"
                    /\ counts' = counts /\ containers' = containers
            /\ (containers[id] # NoNode /\ pc[t] = "deleting") =>
                    /\ pc'[t] = "done"
                    /\ counts' = [counts EXCEPT ![containers[id]] = @ - 1]
                    /\ containers' = [containers EXCEPT ![id] = NoNode]
            /\ (containers[id] = NoNode /\ pc[t] = "probe") =>
                    /\ pc'[t] \in {"probe", "done"}
                    /\ counts' = counts /\ containers' = containers]_vars

\* The container was run and registered, the engine removed it, one stop
\* found it in the registry and a second stop found nothing.
C6_Witness ==
    \E t, u \in Tasks, id \in Ids :
        /\ engine[id].status = "gone" /\ containers[id] = NoNode
        /\ op[t] = "stop" /\ pc[t] = "done" /\ result[t] = "ok"
        /\ container_id[t] = id /\ node_idx[t] \in Nodes
        /\ op[u] = "stop" /\ pc[u] = "done" /\ result[u] = "ok"
        /\ container_id[u] = id /\ node_idx[u] = NoNode
        /\ \A n \in Nodes : counts[n] = 0

\* C7: a successful stop of a registered container decrements the owning
\* node's count by one and deletes that id's entry; nothing else of the
\* counts and the registry changes.
C7_StopFrame ==
    [][\A t \in Tasks :
        LET id == container_id[t]
        IN InStop(t) /\ Stepped(t) /\ containers[id] # NoNode /\ Exists(id) =>
            /\ pc[t] = "stopping" => counts' = counts /\ containers' = containers
            /\ pc[t] = "deleting" =>
                    /\ pc'[t] = "done" /\ result'[t] = "ok"
                    /\ counts' = [counts EXCEPT ![containers[id]] = @ - 1]
                    /\ containers' = [containers EXCEPT ![id] = NoNode]]_vars

\* A stop has removed its container while another one stays registered and
\* counted on the other node.
C7_Witness ==
    \E t \in Tasks, j \in Ids :
        /\ op[t] = "stop" /\ pc[t] = "done" /\ result[t] = "ok"
        /\ engine[container_id[t]].status = "removed"
        /\ containers[container_id[t]] = NoNode
        /\ j # container_id[t] /\ containers[j] = 1
        /\ counts[0] = 0 /\ counts[1] = 1

\* C8: when runContainer returns an id, the registry maps the id to the node
\* the call reserved, the status read before registration was "running",
\* and the call leaves its slot counted: a count goes down only when a stop
\* ends or a run fails.
C8_SuccessRegistersReservedNode ==
    [][/\ \A t \in Tasks :
            InFlightRun(t) /\ pc'[t] = "done" /\ result'[t] = "ok" =>
                /\ observed'[t] = "running"
                /\ container_id[t] \in Ids
                /\ containers' = [containers EXCEPT ![container_id[t]] = node_idx[t]]
                /\ \A i \in Ids : containers'[i] # containers[i] => i = container_id[t]
                /\ counts' = counts
       /\ \A n \in Nodes :
            counts'[n] < counts[n] =>
                \E t \in Tasks :
                    /\ node_idx[t] = n /\ pc'[t] = "done"
                    /\ \/ op[t] = "stop" /\ pc[t] = "deleting"
                       \/ InFlightRun(t) /\ result'[t] \in FailedRunResults]_vars

C8_Witness ==
    \E t \in Tasks :
        /\ op[t] = "run" /\ pc[t] = "done" /\ result[t] = "ok"
        /\ node_idx[t] = 1 /\ containers[container_id[t]] = 1
        /\ observed[t] = "running" /\ counts[1] = 1

\* C9: a status other than "running" after start makes runContainer fail
\* with ContainerStartError; the call adds no registry entry and neither
\* stops nor removes the container, whether or not its logs can be read.
C9_NotRunningFails ==
    [][\A t \in Tasks :
        /\ (op[t] = "run" /\ pc[t] = "show" /\ Stepped(t)
                /\ Exists(container_id[t])
                /\ engine[container_id[t]].status # "running") =>
              /\ pc'[t] = "logs"
              /\ containers' = containers /\ engine' = engine
        /\ (op[t] = "run" /\ pc[t] = "logs" /\ Stepped(t)) =>
              /\ pc'[t] = "done" /\ result'[t] = "StartError"
              /\ containers' = containers /\ engine' = engine]_vars

C9_Witness ==
    \E t \in Tasks :
        /\ op[t] = "run" /\ pc[t] = "done" /\ result[t] = "StartError"
        /\ observed[t] = "exited"
        /\ engine[container_id[t]].status = "exited"
        /\ containers[container_id[t]] = NoNode

\* C10: when the first build attempt fails with a cache-corruption signature
\* in its error text, one further attempt is made without cache: the call
\* has made two build attempts when it ends.
C10_CorruptCacheRetriedOnce ==
    \A t \in Tasks :
        (op[t] = "run" /\ pc[t] = "done"
            /\ firstBuild[t] = "exit_nonzero_cache_corrupt") => attempts[t] = 2

\* C11: a run whose first build fails without a cache-corruption signature
\* in its error text (a non-zero exit code, a timeout) ends with BuildError
\* after exactly one build attempt, and no run makes more than two attempts.
C11_BuildFailureIsTerminal ==
    \A t \in Tasks :
        /\ attempts[t] <= 2
        /\ ( /\ op[t] = "run"
              /\ firstBuild[t] \in {"exit_nonzero", "timeout"} )
           => /\ pc[t] = "done"
              /\ result[t] = "BuildError"
              /\ attempts[t] = 1

C11_Witness ==
    \E t, u \in Tasks :
        /\ result[t] = "BuildError" /\ firstBuild[t] = "exit_nonzero"
        /\ result[u] = "BuildError" /\ firstBuild[u] = "timeout"
        /\ attempts[t] = 1 /\ attempts[u] = 1

\* C13: a run that fails with InvalidBuildContext has made no build attempt
\* and reserved no slot: the call leaves every count and the registry as
\* they were.
C13_InvalidContextTouchesNothing ==
    [][\A t \in Tasks :
          (result'[t] = "InvalidBuildContext" /\ result[t] # "InvalidBuildContext")
          => /\ pc[t] = "idle"
             /\ counts' = counts
             /\ containers' = containers
             /\ attempts'[t] = 0
             /\ node_idx'[t] = NoNode]_vars

C13_Witness ==
    \E t \in Tasks :
        /\ result[t] = "InvalidBuildContext"
        /\ \E n \in Nodes : counts[n] > 0

\* C12: a build whose process still runs when the 600-second ceiling is
\* reached has its process killed before the call returns, the call fails
\* with BuildTimeout, and no call returns while its build process runs or
\* waits beyond the ceiling.
C12_TimedOutBuildIsKilled ==
    \A t \in Tasks :
        /\ elapsed[t] <= BuildCeiling
        /\ (op[t] = "build" /\ pc[t] = "done") =>
              /\ process[t] # "running"
              /\ process[t] = "killed" => result[t] = "BuildTimeout"
        /\ (op[t] = "build" /\ pc[t] = "reap") => process[t] # "running"

C12_Witness ==
    \E t \in Tasks :
        /\ op[t] = "build" /\ pc[t] = "done"
        /\ process[t] = "killed"
        /\ result[t] = "BuildTimeout"
        /\ elapsed[t] = BuildCeiling

\* C14: when the live status an exec reads is not "running" (or cannot be
\* read), the call ends there with ContainerNotRunning; a call that ended so
\* has created and started no exec session.
C14_NotRunningCreatesNoExec ==
    [][\A t \in Tasks :
          /\ (pc[t] = "status" /\ pc'[t] # "status" /\ ~IsRunning(observed'[t]))
             => /\ pc'[t] = "done"
                /\ result'[t] = "ContainerNotRunning"
                /\ session' = session
          /\ result'[t] = "ContainerNotRunning" => session'[t] = "none"]_vars

C14_Witness ==
    \E t, u \in Tasks :
        /\ result[t] = "ContainerNotRunning"
        /\ observed[t] = "exited"
        /\ session[t] = "none"
        /\ session[u] = "running"

\* C15: an exec with a timeout never stays in its read loop beyond the
\* timeout: when the stream has not ended by then the call fails with
\* ExecTimeout at that very time, whether or not the command has finished.
C15_TimeoutBoundsReadLoop ==
    \A t \in Tasks :
        (op[t] = "exec" /\ timeout[t] # NoTimeout) =>
            /\ elapsed[t] <= timeout[t]
            /\ result[t] = "ExecTimeout" => elapsed[t] = timeout[t]
            /\ (pc[t] = "reading" /\ elapsed[t] = timeout[t]) =>
                   ENABLED ExecDeadline(t)

C15_Witness ==
    \E t \in Tasks :
        /\ result[t] = "ExecTimeout"
        /\ timeout[t] = 1
        /\ elapsed[t] = 1
        /\ session[t] = "running"

\* C16: the step that ends an exec with ExecTimeout leaves the command in
\* the container as it is (running, when it was), and changes neither the
\* registry, nor the counts, nor the container.
C16_TimeoutFrame ==
    [][\A t \in Tasks :
          (result'[t] = "ExecTimeout" /\ result[t] # "ExecTimeout")
          => /\ session' = session
             /\ containers' = containers
             /\ counts' = counts
             /\ engine' = engine]_vars

C16_Witness ==
    \E t \in Tasks :
        /\ result[t] = "ExecTimeout"
        /\ session[t] = "running"
        /\ containers[container_id[t]] # NoNode
        /\ counts[containers[container_id[t]]] = 1

\* The decoded payloads, joined in order of arrival, of the received frames
\* that pass a test.
DecodeAll(frames) == [i \in DOMAIN frames |-> Decode(frames[i].data)]
StdoutExpected(t) == Join(DecodeAll(SelectSeq(received[t], IsStdout)))
StderrExpected(t) == Join(DecodeAll(SelectSeq(received[t], IsStderr)))
IsOutput(msg) == IsStdout(msg) \/ IsStderr(msg)

\* C17 as stated: stdout is the frames tagged stdout and the raw-byte frames
\* joined in arrival order, stderr the frames tagged stderr, and every
\* received frame is in exactly one of the two.
C17_EveryFrameInOneResult ==
    \A t \in Tasks :
        /\ Stdout(t) = StdoutExpected(t)
        /\ Stderr(t) = StderrExpected(t)
        /\ Len(stdout_chunks[t]) + Len(stderr_chunks[t]) = Len(received[t])

\* C17 amended: the same, but it is every frame tagged stdout or stderr and
\* every raw-byte frame that is in exactly one of the two results; a frame
\* with another stream tag is in neither.
C17_TaggedFramesInOneResult ==
    \A t \in Tasks :
        /\ Stdout(t) = StdoutExpected(t)
        /\ Stderr(t) = StderrExpected(t)
        /\ Len(stdout_chunks[t]) + Len(stderr_chunks[t])
              = Len(SelectSeq(received[t], IsOutput))

C17_Witness ==
    \E t \in Tasks :
        /\ result[t] = "ok"
        /\ Len(received[t]) = 2
        /\ received[t][1] = [type |-> "Message", stream |-> 2, data |-> <<"b">>]
        /\ received[t][2] = [type |-> "bytes", data |-> <<"xFF">>]
        /\ Stdout(t) = <<"uFFFD">>
        /\ Stderr(t) = <<"b">>

\* C18: an exec that has ended has returned its output or failed with
\* ContainerNotRunning, ContainerNotFound or ExecTimeout, never with an
\* error of the engine as the engine raised it.
C18_ExecFailuresAreTyped ==
    \A t \in Tasks :
        (op[t] = "exec" /\ pc[t] = "done") =>
            result[t] \in {"ok", "ContainerNotRunning", "ContainerNotFound",
                           "ExecTimeout"}

\* The task's own step: its position changes.
LookupStepped(t) == pc[t] = "probe" /\ pc'[t] # pc[t]

LastNode == CHOOSE n \in Nodes : \A m \in Nodes : m <= n

\* C19: a lookup whose last probe finds no container, no endpoint before it
\* having reported one, fails with ContainerNotFound; the step that fails
\* leaves no registry entry for the id, whoever cached one meanwhile, and
\* changes no count.
C19_FailedLookupPurges ==
    [][\A t \in Tasks :
          /\ ( /\ LookupStepped(t)
               /\ op[t] = "exec"
               /\ node_idx[t] = LastNode
               /\ ~ExistsOn(container_id[t], LastNode) )
             => result'[t] = "ContainerNotFound"
          /\ (result'[t] = "ContainerNotFound" /\ result[t] # "ContainerNotFound")
             => /\ containers'[container_id[t]] = NoNode
                /\ counts' = counts]_vars

C19_Witness ==
    \E t, u \in Tasks :
        /\ result[t] = "ContainerNotFound"
        /\ pc[u] = "status"
        /\ container_id[u] = container_id[t]
        /\ containers[container_id[t]] = NoNode

\* C20: a lookup of an unregistered id asks endpoint 0 first and the next
\* endpoint after each one that does not report the container; the first
\* that reports it is returned and cached under the id, and a lookup that
\* finds the id cached returns the cached node without a probe.
C20_ProbesInOrderAndCaches ==
    [][\A t \in Tasks :
          /\ (pc[t] = "idle" /\ pc'[t] # "idle") =>
                IF containers[container_id'[t]] = NoNode
                THEN pc'[t] = "probe" /\ node_idx'[t] = 0
                ELSE pc'[t] = "status" /\ node_idx'[t] = containers[container_id'[t]]
          /\ (pc[t] = "probe" /\ pc'[t] = "probe" /\ node_idx'[t] # node_idx[t]) =>
                /\ node_idx'[t] = node_idx[t] + 1
                /\ ~ExistsOn(container_id[t], node_idx[t])
          /\ (pc[t] = "probe" /\ pc'[t] = "status") =>
                /\ ExistsOn(container_id[t], node_idx[t])
                /\ node_idx'[t] = node_idx[t]
                /\ containers'[container_id[t]] = node_idx[t]]_vars

C20_Witness ==
    \E t, u \in Tasks :
        /\ t # u
        /\ pc[t] = "status" /\ pc[u] = "done" /\ result[u] = "ok"
        /\ node_idx[t] = 1 /\ node_idx[u] = 1
        /\ containers[container_id[t]] = 1
        /\ counts[1] = 0

\* C21: once an exec on a registered id has ended on the engine's report
\* that the container is missing, the registry holds the id no more.
C21_MissingContainerUnregistered ==
    \A t \in Tasks :
        (op[t] = "exec" /\ pc[t] = "done" /\ observed[t] = "error")
            => containers[container_id[t]] = NoNode

\* C26: every step that changes a count or the registry is made by a task
\* at a write site, and every write site it passes holds the lock.
C26_MutationsHoldLock ==
    [][(counts' # counts \/ containers' # containers) =>
          \E t \in Tasks :
              /\ SitesOf(t) # {}
              /\ \A site \in SitesOf(t) : HoldsLock(site)]_vars

\* The step of a thread that raises ValueError from create_subtask.
SubtaskFails(t) == result'[t] = "ValueError" /\ result[t] # "ValueError"

\* C29: every task has a depth from 0 to 2; create_subtask under a parent
\* at depth 2 ends with ValueError; and the step in which create_subtask
\* fails leaves the task map (child lists included) and the id counter as
\* they were.
C29_DepthBoundedAndFailureFrame ==
    [][/\ \A id \in DOMAIN tasks' : tasks'[id].depth \in 0..MAX_DEPTH
       /\ \A t \in Tasks :
            /\ ( /\ pc[t] = "validate" /\ pc'[t] # "validate"
                 /\ parent_id[t] \in DOMAIN tasks
                 /\ tasks[parent_id[t]].depth = MAX_DEPTH )
               => result'[t] = "ValueError"
            /\ SubtaskFails(t) => tasks' = tasks /\ task_counter' = task_counter]_vars

C29_Witness ==
    \E t \in Tasks :
        /\ op[t] = "create_subtask" /\ result[t] = "ValueError"
        /\ parent_id[t] \in DOMAIN tasks
        /\ tasks[parent_id[t]].depth = MAX_DEPTH
        /\ task_counter = 3

\* Threads that have taken a number and not yet stored their task.
Storing == {t \in Tasks : pc[t] = "insert"}

\* C30: the threads that have created a task hold pairwise distinct ids, and
\* task_counter is the number of tasks stored plus the one being stored.
C30_DistinctIdsAndCounter ==
    /\ \A t, u \in Tasks :
          (t # u /\ task_id[t] # NoTask /\ task_id[u] # NoTask)
              => task_id[t] # task_id[u]
    /\ task_counter = Cardinality(DOMAIN tasks) + Cardinality(Storing)
    /\ Cardinality(Storing) <= 1

C30_Witness ==
    \E t, u \in Tasks :
        /\ t # u
        /\ op[t] = "create_task" /\ result[t] = "ok"
        /\ op[u] = "create_subtask" /\ result[u] = "ok"
        /\ task_counter = MaxTaskIds
        /\ Cardinality(DOMAIN tasks) = MaxTaskIds

\* C28: once the manager is initialized, also after close() and further use,
\* the endpoints, the clients and the counts are equally many and at least
\* one, so the index that the selection returns denotes an endpoint that has
\* a client.
C28_OneClientAndCountPerEndpoint ==
    initialized =>
        /\ docker_endpoints >= 1
        /\ clients = docker_endpoints
        /\ Size(counts) = docker_endpoints
        /\ SelectLeastLoadedNode(counts) \in 0..(clients - 1)

\* C25: while cleanup_all waits, every container of the registry has a task
\* that stops and removes it; when cleanup_all has returned, nothing was
\* raised to the caller, every container whose task met no failure is gone
\* from the engine and from the registry whatever the other tasks met, and
\* when no task failed the registry is empty.
C25_CleanupAllCollectsFailures ==
    \A c \in Tasks :
        /\ (op[c] = "cleanup" /\ pc[c] = "gather") =>
                \A id \in Registered :
                    \E u \in awaited[c] : op[u] = "stop" /\ container_id[u] = id
        /\ (op[c] = "cleanup" /\ pc[c] = "done") =>
                /\ result[c] = "ok"
                /\ \A id \in DOMAIN gathered[c] :
                        gathered[c][id] = "ok" =>
                            containers[id] = NoNode /\ ~Exists(id)
                /\ (\A id \in DOMAIN gathered[c] : gathered[c][id] = "ok") =>
                        Registered = {}

\* cleanup_all has returned: the stop of one container failed and the other
\* container was removed.
C25_Witness ==
    /\ op[Caller] = "cleanup" /\ pc[Caller] = "done" /\ result[Caller] = "ok"
    /\ \E id, other \in DOMAIN gathered[Caller] :
        /\ gathered[Caller][id] = "ConnectionError"
        /\ gathered[Caller][other] = "ok"
        /\ engine[other].status = "removed"

\* The bytes of a text: str.encode('utf-8').
Encode(text) ==
    Join([i \in DOMAIN text |->
            IF text[i] = "uFFFD" THEN <<"xEF", "xBF", "xBD">> ELSE <<text[i]>>])

\* An exec that read back the destination of the task's copy has returned.
ReadBack(t) ==
    /\ op[t] = "exec" /\ pc[t] = "done" /\ result[t] = "ok"
    /\ copy[t].local_file_path # "none"

\* C22: after a copy that returned, an exec in the same container that reads
\* the destination returns the bytes of the source file, whatever the file
\* holds and whatever the destination path is.
C22_CopyThenReadIsIdentical ==
    \A t \in Tasks :
        ReadBack(t) => Encode(Stdout(t)) = LocalFiles[copy[t].local_file_path]

\* A failed copy has ended.
CopyFailed(t) ==
    /\ op[t] = "copy" /\ pc[t] = "done"
    /\ result[t] \in {"ContainerNotFound", "FileNotFoundError"}

C24_CopyToStoppedContainerFails ==
    \A t \in Tasks :
        (/\ op[t] = "copy" /\ pc[t] = "done"
         /\ copy[t].local_file_path \in DOMAIN LocalFiles
         /\ copy[t].before.containers[container_id[t]] # NoNode
         /\ copy[t].before.engine[container_id[t]].status = "exited")
            => result[t] = "ContainerNotRunning"

\* The launch of a background command has failed for good.
LaunchFailed(t) ==
    \/ op[t] = "background_legacy" /\ pc[t] = "done" /\ process[t] = "exit_1"
    \/ op[t] = "exec" /\ pc[t] = "destroyed" /\ result[t] # "ok"

\* C27: the background variant returns without an error, whether the command
\* has ended or not, and a launch that failed has a record in the log.
C27_BackgroundNeverRaisesAndLogs ==
    \A t \in Tasks :
        /\ (op[t] \in {"background", "background_legacy"} /\ pc[t] = "done") =>
                result[t] = "ok"
        /\ LaunchFailed(t) => \E rec \in log : rec.task = t

\* How often id is listed in the sequence ids.
Listings(ids, id) == Cardinality({i \in DOMAIN ids : ids[i] = id})

\* C33: a task is in p.child_ids exactly when its parent_id is p's id, and
\* then once; a child is one level below its parent; a root task has depth
\* 0 and no parent.
C33_ChildListsMatchParents ==
    \A c \in DOMAIN tasks :
        /\ \A p \in DOMAIN tasks :
            /\ Listings(tasks[p].child_ids, c) = (IF tasks[c].parent_id = p THEN 1 ELSE 0)
            /\ tasks[c].parent_id = p => tasks[c].depth = tasks[p].depth + 1
        /\ \A i \in DOMAIN tasks[c].child_ids : tasks[c].child_ids[i] \in DOMAIN tasks
        /\ tasks[c].parent_id # NoTask => tasks[c].parent_id \in DOMAIN tasks
        /\ tasks[c].parent_id = NoTask <=> tasks[c].depth = 0

\* A task with two subtasks, one of which has a subtask of its own.
C33_Witness ==
    \E p, c \in DOMAIN tasks :
        /\ Len(tasks[p].child_ids) = 2
        /\ tasks[c].parent_id = p
        /\ Len(tasks[c].child_ids) = 1

\* The fields update_status writes.
StatusFields(task) == <<task.status, task.error_message, task.completed_at>>

\* C31: the step of update_status that decides raises ValueError for an
\* unknown task and PermissionError for a requester that is not the task's
\* owner, and leaves every task as it is in both cases; the status fields
\* of a task change only in a step of a request by its owner.
C31_OnlyOwnerUpdates ==
    [][/\ \A t \in Tasks :
            (pc[t] = "update" /\ pc'[t] = "done") =>
                /\ task_id[t] \notin DOMAIN tasks =>
                        result'[t] = "ValueError" /\ tasks' = tasks
                /\ (/\ task_id[t] \in DOMAIN tasks
                    /\ tasks[task_id[t]].owner_id # request[t].owner_id) =>
                        result'[t] = "PermissionError" /\ tasks' = tasks
       /\ \A id \in DOMAIN tasks :
            StatusFields(tasks'[id]) # StatusFields(tasks[id]) =>
                \E t \in Tasks :
                    /\ pc[t] = "update" /\ task_id[t] = id
                    /\ request[t].owner_id = tasks[id].owner_id
                    /\ result'[t] = "ok"]_vars

\* A request by another agent has ended with PermissionError for a task that
\* its owner had completed before.
C31_Witness ==
    \E t \in Tasks :
        /\ op[t] = "update_status" /\ pc[t] = "done"
        /\ result[t] = "PermissionError"
        /\ tasks[task_id[t]].status = "completed"
        /\ request[t].status = "failed"

\* What the claim says get_aggregated_status returns for a task.
RECURSIVE Expected(_)
Expected(id) ==
    IF tasks[id].child_ids = <<>> THEN tasks[id].status
    ELSE IF \A i \in DOMAIN tasks[id].child_ids :
                Expected(tasks[id].child_ids[i]) = "completed"
    THEN "completed"
    ELSE "created"

C34_ConcurrentStopsDecrementOnce ==
    [][\A u \in Tasks :
            (op[u] = "stop" /\ pc[u] # "done" /\ pc'[u] = "done") =>
                /\ result'[u] = "ok"
                /\ counts' # counts =>
                    /\ containers[container_id[u]] # NoNode
                    /\ counts' = Decrement(counts, containers[container_id[u]])]_vars

\* C35: no reservation is leaked: when a runContainer call ends, by success,
\* by any failure or by cancellation of its task at an await, its reserved
\* slot is backed by a registry entry for the returned container or is
\* released in that step.
C35_NoReservationLeaked ==
    [][\A t \in Tasks :
        InFlightRun(t) /\ pc'[t] = "done" =>
            \/ /\ result'[t] = "ok"
               /\ container_id'[t] \in Ids
               /\ containers'[container_id'[t]] = node_idx[t]
               /\ counts' = counts
            \/ /\ result'[t] # "ok"
               /\ counts' = Decrement(counts, node_idx[t])]_vars

C37_RunTerminates ==
    \A t \in 1..2 :
        (pc[t] \notin {"idle", "done"}) ~> (pc[t] = "done" /\ result[t] # "none")

C37_Witness ==
    \E t, u \in Tasks :
        /\ op[t] = "build" /\ pc[t] = "done" /\ result[t] = "BuildTimeout"
        /\ process[t] = "killed"
        /\ op[u] = "run" /\ pc[u] = "done" /\ result[u] = "ok"
        /\ containers[container_id[u]] = node_idx[u]

C39_CleanupStepsIndependent ==
    [][\A t \in Tasks :
        (op[t] = "system_cleanup" /\ pc[t] \in CleanupPcs /\ pc'[t] # pc[t]) =>
            IF pc'[t] = "done"
            THEN pc[t] = "builder_prune" /\ result'[t] = "ok"
            ELSE /\ pc'[t] \in CleanupPcs
                 /\ Rank(pc'[t]) > Rank(pc[t])
                 /\ Rank(pc'[t]) <= Rank("network_ls")
                        \/ Rank(pc'[t]) = Rank(pc[t]) + 1]_vars

C39_Witness ==
    \E t \in Tasks :
        /\ op[t] = "system_cleanup" /\ pc[t] = "done" /\ result[t] = "ok"
        /\ Record(t, "error") \in log
        /\ Len(stdout_chunks[t]) = Len(CleanupCommands)
        /\ stdout_chunks[t][Rank("network_prune")] = ""
        /\ stdout_chunks[t][Rank("image_prune")] = ""
        /\ stdout_chunks[t][Rank("builder_prune")] = "text"

\* A FinishAction is among the actions the turn has executed.
FinishExecuted ==
    \E i \in DOMAIN turn.actions_executed : turn.actions_executed[i] = "finish"

\* C40: the ExecutionResult of a turn has done = True exactly when a
\* FinishAction was executed in the turn, nothing is executed after the
\* first FinishAction, and a run that ends as completed has executed a
\* FinishAction in its last turn.
C40_DoneIffFinishExecuted ==
    /\ turn.returned => (turn.done <=> FinishExecuted)
    /\ \A i \in DOMAIN turn.actions_executed :
          turn.actions_executed[i] = "finish" => i = Len(turn.actions_executed)
    /\ state.finish_reason = "completed" => FinishExecuted

====
